---- MODULE Spec2Model ----
(***************************************************************************)
(* Verification model of the LinkedIn match algorithm repository:          *)
(*   - CompatibilityFeatureEngine   (src/src/features/compatibility_features.py) *)
(*   - ConnectionRecommender        (src/src/models/connection_recommender.py)   *)
(*   - score prediction paths       (src/model-api/app.py, src/src/api/main.py,  *)
(*                                   src/src/models/compatibility_scorer.py,     *)
(*                                   src/7_real_profile_tester.py)               *)
(*   - HiddenGemsDetector           (src/src/features/hidden_gems_detector.py)   *)
(*                                                                         *)
(* Numbers that are floats in the source are exact rationals <<n, d>> with *)
(* d > 0, kept in lowest terms.  Text is a sequence of one-character       *)
(* strings so that lower(), split() and the substring test "w in s" are    *)
(* computed the way the source computes them.                              *)
(***************************************************************************)
EXTENDS Integers, Sequences, FiniteSets, TLC

VARIABLES
    \* --- CompatibilityFeatureEngine ---
    profile_a, profile_b,   \* the two profiles handed to calculate_features
    features,               \* the dict returned by calculate_features
    feat_pc,                \* "ready" before the call, "done" after it, "again" after a second
    hash_seed,              \* the string-hash seed of the running interpreter
    features_again,         \* the dict returned by a second call on the same profiles
    \* --- ConnectionRecommender ---
    pairs_df,               \* self.pairs_df: sequence of pair rows (insertion order)
    profiles_df,            \* self.profiles_df: sequence of profile rows
    filter_red_flags,       \* self.filter_red_flags
    red_flag_threshold,     \* self.red_flag_threshold
    rec_call,               \* arguments of the last recommend_for_user call
    recommendations,        \* rows returned by the last recommend_for_user / get_hidden_gems call
    evaluation,             \* the dict returned by the last evaluate_connection call
    \* --- score prediction paths ---
    api_model,              \* module-level `model` of the FastAPI app: "none" | "loaded"
    req,                    \* the request being served
    resp,                   \* the response handed back to the caller
    trace,                  \* steps the serving path ran, in order
    is_trained,             \* CompatibilityScorer.is_trained
    \* --- HiddenGemsDetector ---
    skill_rarity_map,       \* self.skill_rarity_map
    map_corpus,             \* the profiles _calculate_skill_rarity last ran over
    corpus,                 \* profiles_df passed to the running batch_analyze
    gem_pc,                 \* position inside batch_analyze
    todo,                   \* skills whose rarity _calculate_skill_rarity has not yet stored
    idx,                    \* index of the next profile of the analyze loop
    gem_data,               \* gem_data list of batch_analyze
    map_seen,               \* rarity maps observed by the analyze_profile calls of the batch
    \* --- rarity of a skill, as a function of its frequency ---
    rar_in,                 \* occurrence counts of two skills and the number of profiles
    rar_out,                \* the rarity _calculate_skill_rarity stores for each of the two
    \* --- RedFlagsDetector ---
    rf_profile,             \* the profile handed to detect_red_flags
    rf_flags,               \* the dict returned by detect_red_flags
    rf_pc,                  \* "ready" before the call, "done" after it
    \* --- mentorship component of the compatibility scripts ---
    m_user, m_target,       \* the user and target profiles handed to the score functions
    m_scores,               \* the mentorship score each of the three scripts computed
    m_pc,                   \* "ready" before the calls, "done" after, "swapped" after the reverse
    \* --- HiddenGemsDetector.analyze_profile on one profile ---
    ga_profile,             \* the profile handed to analyze_profile
    ga_map,                 \* self.skill_rarity_map of the detector
    ga_result,              \* the dict returned by analyze_profile
    ga_pc,                  \* "ready" before the call, "done" after it
    \* --- CompatibilityScorer lifecycle ---
    scorer,                 \* the scorer object: pipeline, feature_names, is_trained
    sc_call,                \* the last operation called on the scorer and its outcome
    sc_file                 \* the model data on disk, written by save

featVars == <<profile_a, profile_b, features, feat_pc, hash_seed, features_again>>
recVars  == <<pairs_df, profiles_df, filter_red_flags, red_flag_threshold, rec_call, recommendations,
              evaluation>>
apiVars  == <<api_model, req, resp, trace, is_trained>>
gemVars  == <<skill_rarity_map, map_corpus, corpus, gem_pc, todo, idx, gem_data, map_seen>>
rarVars  == <<rar_in, rar_out>>
rfVars   == <<rf_profile, rf_flags, rf_pc>>
mentVars == <<m_user, m_target, m_scores, m_pc>>
gaVars   == <<ga_profile, ga_map, ga_result, ga_pc>>
scVars   == <<scorer, sc_call, sc_file>>
vars     == <<featVars, recVars, apiVars, gemVars, rarVars, rfVars, mentVars, gaVars, scVars>>

(***************************************************************************)
(* Exact rational arithmetic                                               *)
(***************************************************************************)
RECURSIVE GCD(_, _)
GCD(a, b) == IF b = 0 THEN a ELSE GCD(b, a % b)

Abs(n) == IF n < 0 THEN -n ELSE n

Norm(x) ==
    LET g == GCD(Abs(x[1]), x[2])
    IN  IF g = 0 THEN <<0, 1>> ELSE <<x[1] \div g, x[2] \div g>>

R(n)       == <<n, 1>>
Frac(n, d) == Norm(<<n, d>>)
RAdd(x, y) == Norm(<<x[1] * y[2] + y[1] * x[2], x[2] * y[2]>>)
RMul(x, y) == Norm(<<x[1] * y[1], x[2] * y[2]>>)
RLe(x, y)  == x[1] * y[2] <= y[1] * x[2]
RLt(x, y)  == x[1] * y[2] < y[1] * x[2]
RGe(x, y)  == RLe(y, x)
RGt(x, y)  == RLt(y, x)
RMin(x, y) == IF RLe(x, y) THEN x ELSE y
RMax(x, y) == IF RLe(x, y) THEN y ELSE x
InRange(x) == RLe(R(0), x) /\ RLe(x, R(100))

\* min and max of two integers
Min(a, b) == IF a < b THEN a ELSE b
Max(a, b) == IF a > b THEN a ELSE b

\* round(x, nd) with scale = 10^nd: nearest multiple of 1/scale, ties to even
RoundTo(x, scale) ==
    LET n == Abs(x[1]) * scale
        q == n \div x[2]
        r == n % x[2]
        up == (2 * r > x[2]) \/ (2 * r = x[2] /\ q % 2 = 1)
        m == IF up THEN q + 1 ELSE q
    IN  Frac(IF x[1] < 0 THEN -m ELSE m, scale)

(***************************************************************************)
(* Text                                                                    *)
(***************************************************************************)
LowerChar(c) ==
    CASE c = "A" -> "a"
      [] c = "B" -> "b"
      [] c = "C" -> "c"
      [] c = "D" -> "d"
      [] c = "E" -> "e"
      [] c = "F" -> "f"
      [] c = "G" -> "g"
      [] c = "H" -> "h"
      [] c = "I" -> "i"
      [] c = "J" -> "j"
      [] c = "K" -> "k"
      [] c = "L" -> "l"
      [] c = "M" -> "m"
      [] c = "N" -> "n"
      [] c = "O" -> "o"
      [] c = "P" -> "p"
      [] c = "Q" -> "q"
      [] c = "R" -> "r"
      [] c = "S" -> "s"
      [] c = "T" -> "t"
      [] c = "U" -> "u"
      [] c = "V" -> "v"
      [] c = "W" -> "w"
      [] c = "X" -> "x"
      [] c = "Y" -> "y"
      [] c = "Z" -> "z"
      [] OTHER   -> c

\* str.lower()
Lower(s) == [i \in DOMAIN s |-> LowerChar(s[i])]

\* str.split(sep): the pieces between separators, empty pieces included
RECURSIVE SplitOn(_, _)
SplitOn(s, sep) ==
    IF \A i \in DOMAIN s : s[i] # sep
    THEN <<s>>
    ELSE LET i == CHOOSE k \in DOMAIN s :
                      s[k] = sep /\ \A j \in 1..(k - 1) : s[j] # sep
         IN  <<SubSeq(s, 1, i - 1)>> \o SplitOn(SubSeq(s, i + 1, Len(s)), sep)

\* str.split(): the set of whitespace-separated words (no empty words)
RECURSIVE Words(_)
Words(s) ==
    IF s = <<>> THEN {}
    ELSE IF s[1] = " " THEN Words(Tail(s))
    ELSE LET stop == IF \E k \in DOMAIN s : s[k] = " "
                     THEN CHOOSE k \in DOMAIN s :
                              s[k] = " " /\ \A j \in 1..(k - 1) : s[j] # " "
                     ELSE Len(s) + 1
         IN  {SubSeq(s, 1, stop - 1)} \cup Words(SubSeq(s, stop, Len(s)))

\* str.split() as a list: the whitespace-separated words in order
RECURSIVE WordList(_)
WordList(s) ==
    IF s = <<>> THEN <<>>
    ELSE IF s[1] = " " THEN WordList(Tail(s))
    ELSE LET stop == IF \E k \in DOMAIN s : s[k] = " "
                     THEN CHOOSE k \in DOMAIN s :
                              s[k] = " " /\ \A j \in 1..(k - 1) : s[j] # " "
                     ELSE Len(s) + 1
         IN  <<SubSeq(s, 1, stop - 1)>> \o WordList(SubSeq(s, stop, Len(s)))

\* the Python test `w in s` on strings
IsSubstr(w, s) ==
    \E i \in 0..(Len(s) - Len(w)) : SubSeq(s, i + 1, i + Len(w)) = w

\* dict.get / Series.get
Get(p, k, default) == IF k \in DOMAIN p THEN p[k] ELSE default

\* variant: a zero denominator yields the full score instead of the default
safe_divide_full(numerator, denominator, default) ==
    IF denominator = 0 THEN R(100) ELSE Frac(numerator, denominator)

\* helpers.safe_divide
safe_divide(numerator, denominator, default) ==
    IF denominator = 0 THEN default ELSE Frac(numerator, denominator)

\* helpers.calculate_similarity: Jaccard similarity of the word sets, in [0, 1]
calculate_similarity(text1, text2) ==
    IF text1 = <<>> \/ text2 = <<>> THEN R(0)
    ELSE LET tokens1 == Words(Lower(text1))
             tokens2 == Words(Lower(text2))
             intersection == Cardinality(tokens1 \cap tokens2)
             union == Cardinality(tokens1 \cup tokens2)
         IN  IF union = 0 THEN R(0) ELSE Frac(intersection, union)

(***************************************************************************)
(* CompatibilityFeatureEngine                                              *)
(***************************************************************************)
\* text literals used by the profiles below
Txt_tech      == <<"T", "e", "c", "h">>
Txt_info_tech == <<"i", "n", "f", "o", " ", "t", "e", "c", "h">>
Txt_fin       == <<"F", "i", "n">>
Txt_sf_ca     == <<"s", "f", ",", " ", "c", "a">>
Txt_cary_il   == <<"c", "a", "r", "y", ",", " ", "i", "l">>
Txt_nyc_ny    == <<"N", "y", "c", ",", " ", "n", "y">>

\* self.feature_weights with an empty config
feature_weights ==
    [skill_complementarity |-> Frac(40, 100),
     network_value         |-> Frac(30, 100),
     career_alignment      |-> Frac(20, 100),
     geographic_proximity  |-> Frac(10, 100)]

\* variant: the overlap is taken relative to the first profile's skills
calculate_skill_match_relative(pa, pb) ==
    LET skills_a == Get(pa, "skills", {})
        skills_b == Get(pb, "skills", {})
    IN  IF skills_a = {} \/ skills_b = {} THEN R(0)
        ELSE safe_divide(Cardinality(skills_a \cap skills_b) * 100,
                         Cardinality(skills_a), R(0))

calculate_skill_match(pa, pb) ==
    LET skills_a == Get(pa, "skills", {})
        skills_b == Get(pb, "skills", {})
    IN  IF skills_a = {} \/ skills_b = {} THEN R(0)
        ELSE safe_divide(Cardinality(skills_a \cap skills_b) * 100,
                         Cardinality(skills_a \cup skills_b), R(0))

calculate_skill_complementarity(pa, pb) ==
    LET needs_a     == Get(pa, "needs", {})
        can_offer_b == Get(pb, "can_offer", {})
        needs_b     == Get(pb, "needs", {})
        can_offer_a == Get(pa, "can_offer", {})
        a_needs_met == IF needs_a # {} THEN Cardinality(needs_a \cap can_offer_b) ELSE 0
        b_needs_met == IF needs_b # {} THEN Cardinality(needs_b \cap can_offer_a) ELSE 0
        total_needs == Cardinality(needs_a) + Cardinality(needs_b)
        total_met   == a_needs_met + b_needs_met
    IN  safe_divide(total_met * 100, total_needs, R(0))

calculate_industry_match(pa, pb) ==
    LET industry_a == Lower(Get(pa, "industry", <<>>))
        industry_b == Lower(Get(pb, "industry", <<>>))
    IN  IF industry_a = <<>> \/ industry_b = <<>> THEN R(0)
        ELSE IF industry_a = industry_b THEN R(100)
        ELSE RMul(calculate_similarity(industry_a, industry_b), R(100))

SeniorityBonus(s) ==
    CASE s = "entry"     -> 0
      [] s = "mid"       -> 10
      [] s = "senior"    -> 20
      [] s = "executive" -> 30
      [] OTHER           -> 10

\* mutant of calculate_network_value: the final cap min(..., 100) is dropped
calculate_network_value_uncapped(profile_from, profile_to) ==
    LET connections_from == Get(profile_from, "connections", 0)
        connection_score == RMin(Frac(connections_from * 50, 1000), R(50))
        industry_bonus   == RMul(calculate_industry_match(profile_from, profile_to), Frac(3, 10))
        seniority_bonus  == R(SeniorityBonus(Get(profile_from, "seniority_level", "mid")))
    IN  RAdd(RAdd(connection_score, industry_bonus), seniority_bonus)

calculate_network_value(profile_from, profile_to) ==
    LET connections_from == Get(profile_from, "connections", 0)
        connection_score == RMin(Frac(connections_from * 50, 1000), R(50))
        industry_bonus   == RMul(calculate_industry_match(profile_from, profile_to), Frac(3, 10))
        seniority_bonus  == R(SeniorityBonus(Get(profile_from, "seniority_level", "mid")))
    IN  RMin(RAdd(RAdd(connection_score, industry_bonus), seniority_bonus), R(100))

calculate_experience_gap(pa, pb) ==
    Abs(Get(pa, "years_experience", 0) - Get(pb, "years_experience", 0))

calculate_career_alignment(pa, pb) ==
    LET experience_gap == Abs(Get(pa, "years_experience", 0) - Get(pb, "years_experience", 0))
    IN  IF 3 <= experience_gap /\ experience_gap <= 7 THEN R(90)
        ELSE IF experience_gap <= 2 THEN R(80)
        ELSE IF experience_gap <= 15 THEN R(60)
        ELSE R(40)

calculate_geographic_score(pa, pb) ==
    LET loc_a == Lower(Get(pa, "location", <<>>))
        loc_b == Lower(Get(pb, "location", <<>>))
        parts == SplitOn(loc_a, ",")
        region_words == Words(parts[Len(parts)])
    IN  IF loc_a = <<>> \/ loc_b = <<>> THEN R(50)
        ELSE IF loc_a = loc_b THEN R(100)
        ELSE IF \E word \in region_words : IsSubstr(word, loc_b) THEN R(75)
        ELSE IF Get(pa, "remote_preference", "none") = "remote"
                \/ Get(pb, "remote_preference", "none") = "remote" THEN R(60)
        ELSE R(30)

seniority_levels == <<"entry", "mid", "senior", "executive">>

\* list.index; 0 stands for the ValueError of a value that is not in the list
LevelIndex(s) ==
    IF \E i \in DOMAIN seniority_levels : seniority_levels[i] = s
    THEN CHOOSE i \in DOMAIN seniority_levels : seniority_levels[i] = s
    ELSE 0

calculate_seniority_match(pa, pb) ==
    LET idx_a == LevelIndex(Get(pa, "seniority_level", "mid"))
        idx_b == LevelIndex(Get(pb, "seniority_level", "mid"))
        gap   == Abs(idx_a - idx_b)
    IN  IF idx_a = 0 \/ idx_b = 0 THEN R(50)
        ELSE IF gap = 1 THEN R(100)
        ELSE IF gap = 0 THEN R(85)
        ELSE IF gap = 2 THEN R(70)
        ELSE R(50)

calculate_overall_compatibility(f) ==
    LET skill_score   == RMul(RAdd(f.skill_match_score, f.skill_complementarity_score), Frac(1, 2))
        network_score == RMul(RAdd(f.network_value_a_to_b, f.network_value_b_to_a), Frac(1, 2))
        score == RAdd(RAdd(RMul(skill_score, feature_weights.skill_complementarity),
                           RMul(network_score, feature_weights.network_value)),
                      RAdd(RMul(f.career_alignment_score, feature_weights.career_alignment),
                           RMul(f.geographic_score, feature_weights.geographic_proximity)))
    IN  RMin(RoundTo(score, 100), R(100))

predict_job_opportunity(f) ==
    LET network_avg == RMul(RAdd(f.network_value_a_to_b, f.network_value_b_to_a), Frac(1, 2))
        s1 == IF f.experience_gap >= 3 THEN 30 ELSE 0
        s2 == IF RGe(f.industry_match, R(70)) THEN 30 ELSE 0
        s4 == IF RGe(f.skill_complementarity_score, R(60)) THEN 10 ELSE 0
    IN  RMin(R(100), RAdd(R(s1 + s2 + s4), RMul(network_avg, Frac(3, 10))))

predict_mentorship_value(f) ==
    LET exp_gap == f.experience_gap
        network_avg == RMul(RAdd(f.network_value_a_to_b, f.network_value_b_to_a), Frac(1, 2))
        s1 == IF 3 <= exp_gap /\ exp_gap <= 7 THEN 50
              ELSE IF 7 < exp_gap /\ exp_gap <= 12 THEN 35
              ELSE IF exp_gap > 12 THEN 20
              ELSE 10
        s2 == IF RGe(f.industry_match, R(70)) THEN 30 ELSE 0
    IN  RMin(R(100), RAdd(R(s1 + s2), RMul(network_avg, Frac(2, 10))))

predict_collaboration(f) ==
    LET s1 == IF RGe(f.skill_complementarity_score, R(70)) THEN 40
              ELSE IF RGe(f.skill_complementarity_score, R(50)) THEN 25
              ELSE 0
        s2 == IF f.experience_gap <= 3 THEN 30 ELSE 0
        s3 == IF RGe(f.industry_match, R(60)) THEN 20 ELSE 0
        s4 == IF RGe(f.geographic_score, R(70)) THEN 10 ELSE 0
    IN  RMin(R(100), R(s1 + s2 + s3 + s4))

estimate_roi_timeframe(compatibility) ==
    IF RGe(compatibility, R(80)) THEN "weeks"
    ELSE IF RGe(compatibility, R(60)) THEN "months"
    ELSE IF RGe(compatibility, R(40)) THEN "6-12 months"
    ELSE "long-term"

\* ---- iteration order of a set of strings ----
\* list(a_set) yields the elements in the order of the set's hash table, which is
\* a function of the elements and of the string-hash seed the interpreter drew at
\* start-up.  Two seeds stand for two such orders.
HashSeeds == {0, 1}

HashOrder0 ==
    <<"python", "funding", "go", "sql", "mentorship", "ai", "introductions", "rust">>

Reverse(seq) == [i \in DOMAIN seq |-> seq[Len(seq) + 1 - i]]

RECURSIVE AnyOrder(_)
AnyOrder(S) ==
    IF S = {} THEN <<>>
    ELSE LET x == CHOOSE y \in S : TRUE IN <<x>> \o AnyOrder(S \ {x})

\* list(S) under the given seed
ListOfSet(S, seed) ==
    LET order == IF seed = 0 THEN HashOrder0 ELSE Reverse(HashOrder0)
        known == {order[i] : i \in DOMAIN order}
        InS(x) == x \in S
    IN  SelectSeq(order, InS) \o AnyOrder(S \ known)

\* seq[:n]
Prefix(seq, n) == SubSeq(seq, 1, IF Len(seq) < n THEN Len(seq) ELSE n)

\* _generate_explanation; the string is kept as the sequence of its parts, each
\* part with the values formatted into it
generate_explanation(pa, pb, feats, seed) ==
    LET role_b    == Get(pb, "current_role", "professional")
        company_b == Get(pb, "current_company", "their company")
        years_b   == Get(pb, "years_experience", 0)
        years_a   == Get(pa, "years_experience", 0)
        exp_gap   == feats.experience_gap
        relation ==
            IF 3 <= exp_gap /\ exp_gap <= 7
            THEN IF years_b > years_a
                 THEN <<[part |-> "MENTORSHIP", role |-> role_b, company |-> company_b,
                         years |-> years_b],
                        [part |-> "Can mentor you on"]>>
                 ELSE <<[part |-> "REVERSE MENTORSHIP", gap |-> exp_gap],
                        [part |-> "You can mentor them"]>>
            ELSE IF exp_gap <= 2
            THEN <<[part |-> "PEER COLLABORATION", years_a |-> years_a, years_b |-> years_b],
                   [part |-> "Best for"]>>
            ELSE <<[part |-> "ADVISORY", gap |-> exp_gap]>>
        mutual_needs  == ListOfSet(Get(pa, "needs", {}) \cap Get(pb, "can_offer", {}), seed)
        mutual_offers == ListOfSet(Get(pb, "needs", {}) \cap Get(pa, "can_offer", {}), seed)
        shared_skills == ListOfSet(Get(pa, "skills", {}) \cap Get(pb, "skills", {}), seed)
        Listing(name, items) ==
            IF items = <<>> THEN <<>> ELSE <<[part |-> name, items |-> Prefix(items, 3)]>>
        Action(score, text) ==
            IF RGe(score, R(60)) THEN <<[part |-> text]>> ELSE <<>>
    IN  relation
        \o Listing("They can help with", mutual_needs)
        \o Listing("You can help with", mutual_offers)
        \o Listing("Shared expertise", shared_skills)
        \o <<[part |-> "ACTION"]>>
        \o Action(feats.predicted_job_opportunity_score, "Ask about job opportunities/referrals")
        \o Action(feats.predicted_mentorship_value, "Request coffee chat for career advice")
        \o Action(feats.predicted_collaboration_potential, "Explore collaboration opportunities")
        \o (IF RGe(feats.geographic_score, R(90))
            THEN <<[part |-> "Same location - suggest in-person meeting"]>> ELSE <<>>)

calculate_features(pa, pb, seed) ==
    LET base == [skill_match_score           |-> calculate_skill_match(pa, pb),
                 skill_complementarity_score |-> calculate_skill_complementarity(pa, pb),
                 network_value_a_to_b        |-> calculate_network_value(pa, pb),
                 network_value_b_to_a        |-> calculate_network_value(pb, pa),
                 career_alignment_score      |-> calculate_career_alignment(pa, pb),
                 experience_gap              |-> calculate_experience_gap(pa, pb),
                 industry_match              |-> calculate_industry_match(pa, pb),
                 geographic_score            |-> calculate_geographic_score(pa, pb),
                 seniority_match             |-> calculate_seniority_match(pa, pb)]
        compat == calculate_overall_compatibility(base)
        scored == [skill_match_score                 |-> base.skill_match_score,
                   skill_complementarity_score       |-> base.skill_complementarity_score,
                   network_value_a_to_b              |-> base.network_value_a_to_b,
                   network_value_b_to_a              |-> base.network_value_b_to_a,
                   career_alignment_score            |-> base.career_alignment_score,
                   experience_gap                    |-> base.experience_gap,
                   industry_match                    |-> base.industry_match,
                   geographic_score                  |-> base.geographic_score,
                   seniority_match                   |-> base.seniority_match,
                   compatibility_score               |-> compat,
                   predicted_job_opportunity_score   |-> predict_job_opportunity(base),
                   predicted_mentorship_value        |-> predict_mentorship_value(base),
                   predicted_collaboration_potential |-> predict_collaboration(base),
                   roi_timeframe                     |-> estimate_roi_timeframe(compat)]
        explanation == generate_explanation(pa, pb, scored, seed)
    IN  [k \in DOMAIN scored \cup {"mutual_benefit_explanation"} |->
            IF k = "mutual_benefit_explanation" THEN explanation ELSE scored[k]]

\* ---- inputs of the feature engine ----
\* (skills, needs, can_offer) of a profile
SkillBundles ==
    { <<{}, {}, {}>>,
      <<{"python", "sql"}, {"mentorship"}, {"mentorship", "funding"}>>,
      <<{"python"}, {"funding", "introductions"}, {}>>,
      <<{"go"}, {"funding"}, {"introductions"}>> }

\* (industry, location, remote_preference) of a profile
PlaceBundles ==
    { <<<<>>, <<>>, "none">>,
      <<Txt_tech, Txt_sf_ca, "none">>,
      <<Txt_info_tech, Txt_cary_il, "remote">>,
      <<Txt_fin, Txt_nyc_ny, "none">> }

ConnectionChoices == {0, 5000}
SeniorityChoices  == {"entry", "executive", "guru"}
YearStep   == 10
MaxYearIdx == 2
YearChoices == {0, 3} \cup {k * YearStep : k \in 1..MaxYearIdx}

Profiles ==
    { [skills            |-> sb[1],
       needs             |-> sb[2],
       can_offer         |-> sb[3],
       connections       |-> c,
       seniority_level   |-> s,
       years_experience  |-> y,
       industry          |-> pl[1],
       location          |-> pl[2],
       remote_preference |-> pl[3]] :
      sb \in SkillBundles, c \in ConnectionChoices, s \in SeniorityChoices,
      y \in YearChoices, pl \in PlaceBundles }

NoFeatures == [computed |-> FALSE]

\* ---- values of the variables of a component that a specification does not exercise ----
FeatIdle ==
    /\ profile_a = <<>>
    /\ profile_b = <<>>
    /\ features = NoFeatures
    /\ feat_pc = "idle"
    /\ hash_seed = 0
    /\ features_again = NoFeatures

RecIdle ==
    /\ pairs_df = <<>>
    /\ profiles_df = <<>>
    /\ filter_red_flags = TRUE
    /\ red_flag_threshold = 50
    /\ rec_call = <<>>
    /\ recommendations = <<>>
    /\ evaluation = <<>>

ApiIdle ==
    /\ api_model = "none"
    /\ req = <<>>
    /\ resp = <<>>
    /\ trace = <<>>
    /\ is_trained = FALSE

RarIdle ==
    /\ rar_in = <<>>
    /\ rar_out = <<>>

MentIdle ==
    /\ m_user = <<>>
    /\ m_target = <<>>
    /\ m_scores = <<>>
    /\ m_pc = "idle"

GaIdle ==
    /\ ga_profile = <<>>
    /\ ga_map = <<>>
    /\ ga_result = <<>>
    /\ ga_pc = "idle"

ScIdle ==
    /\ scorer = <<>>
    /\ sc_call = <<>>
    /\ sc_file = <<>>

RfIdle ==
    /\ rf_profile = <<>>
    /\ rf_flags = <<>>
    /\ rf_pc = "idle"

GemIdle ==
    /\ skill_rarity_map = <<>>
    /\ map_corpus = <<>>
    /\ corpus = <<>>
    /\ gem_pc = "idle"
    /\ todo = {}
    /\ idx = 0
    /\ gem_data = <<>>
    /\ map_seen = {}

(***************************************************************************)
(* Specification of the feature engine: one call of calculate_features on  *)
(* a pair of profiles.                                                     *)
(***************************************************************************)
InitFeat ==
    /\ profile_a \in Profiles
    /\ profile_b \in Profiles
    /\ features = NoFeatures
    /\ feat_pc = "ready"
    /\ hash_seed = 0
    /\ features_again = NoFeatures
    /\ RecIdle /\ ApiIdle /\ GemIdle /\ RarIdle /\ RfIdle /\ MentIdle /\ GaIdle /\ ScIdle

CalculateFeatures ==
    /\ feat_pc = "ready"
    /\ features' = calculate_features(profile_a, profile_b, hash_seed)
    /\ feat_pc' = "done"
    /\ UNCHANGED <<profile_a, profile_b, hash_seed, features_again, recVars, apiVars, gemVars, rarVars, rfVars, mentVars, gaVars, scVars>>

NextFeat == CalculateFeatures

SpecFeat == InitFeat /\ [][NextFeat]_vars

\* C1: for every pair of valid profiles (non-negative connections and years of
\* experience) and the default weights, every sub-score, the three predicted ROI
\* scores and compatibility_score returned by calculate_features lie in [0, 100].
C1_ScoresInRange ==
    feat_pc = "done" =>
        /\ InRange(features.skill_match_score)
        /\ InRange(features.skill_complementarity_score)
        /\ InRange(features.network_value_a_to_b)
        /\ InRange(features.network_value_b_to_a)
        /\ InRange(features.career_alignment_score)
        /\ InRange(features.industry_match)
        /\ InRange(features.geographic_score)
        /\ InRange(features.seniority_match)
        /\ InRange(features.predicted_job_opportunity_score)
        /\ InRange(features.predicted_mentorship_value)
        /\ InRange(features.predicted_collaboration_potential)
        /\ InRange(features.compatibility_score)

\* C1 witness: a computed pair where the uncapped network value would exceed 100
\* (50 + 30 + 30) and skill match and complementarity are both at their maximum.
C1_Witness ==
    /\ feat_pc = "done"
    /\ profile_a.connections >= 1000
    /\ profile_a.seniority_level = "executive"
    /\ features.industry_match = R(100)
    /\ features.network_value_a_to_b = R(100)
    /\ features.skill_match_score = R(100)
    /\ features.skill_complementarity_score = R(100)
    /\ RGt(features.compatibility_score, R(90))

(***************************************************************************)
(* ConnectionRecommender                                                   *)
(***************************************************************************)
\* default of the red_flag_threshold constructor argument
DefaultRedFlagThreshold == 50

Strategies == {"balanced", "compatibility", "roi", "mentorship", "collaboration", "speed"}

\* mutant of calculate_ranking_score: the 'mentorship' weights are exchanged
calculate_ranking_score_swapped(row, strategy) ==
    LET compat == R(row.compatibility_score)
        job_score    == R(Get(row, "predicted_job_opportunity_score", 0))
        mentor_score == R(Get(row, "predicted_mentorship_value", 0))
        collab_score == R(Get(row, "predicted_collaboration_potential", 0))
    IN  IF strategy = "compatibility" THEN compat
        ELSE IF strategy = "roi" THEN
            RAdd(RAdd(RMul(compat, Frac(4, 10)), RMul(job_score, Frac(25, 100))),
                 RAdd(RMul(mentor_score, Frac(2, 10)), RMul(collab_score, Frac(15, 100))))
        ELSE IF strategy = "mentorship" THEN
            RAdd(RMul(mentor_score, Frac(4, 10)), RMul(compat, Frac(6, 10)))
        ELSE IF strategy = "collaboration" THEN
            RAdd(RMul(collab_score, Frac(6, 10)), RMul(compat, Frac(4, 10)))
        ELSE compat

\* _calculate_ranking_score for one row of pairs_df
calculate_ranking_score(row, strategy) ==
    LET compat == R(row.compatibility_score)
        job_score    == R(Get(row, "predicted_job_opportunity_score", 0))
        mentor_score == R(Get(row, "predicted_mentorship_value", 0))
        collab_score == R(Get(row, "predicted_collaboration_potential", 0))
    IN  IF strategy = "compatibility" THEN compat
        ELSE IF strategy = "roi" THEN
            RAdd(RAdd(RMul(compat, Frac(4, 10)), RMul(job_score, Frac(25, 100))),
                 RAdd(RMul(mentor_score, Frac(2, 10)), RMul(collab_score, Frac(15, 100))))
        ELSE IF strategy = "mentorship" THEN
            RAdd(RMul(mentor_score, Frac(6, 10)), RMul(compat, Frac(4, 10)))
        ELSE IF strategy = "collaboration" THEN
            RAdd(RMul(collab_score, Frac(6, 10)), RMul(compat, Frac(4, 10)))
        ELSE compat

RemoveAt(s, i) == SubSeq(s, 1, i - 1) \o SubSeq(s, i + 1, Len(s))

\* mutant of nlargest: among rows of equal ranking_score the last one is taken first
RECURSIVE nlargest_keep_last(_, _)
nlargest_keep_last(rows, n) ==
    IF n <= 0 \/ rows = <<>> THEN <<>>
    ELSE LET best == CHOOSE i \in DOMAIN rows :
                         \A j \in DOMAIN rows :
                             \/ RLt(rows[j].ranking_score, rows[i].ranking_score)
                             \/ (rows[j].ranking_score = rows[i].ranking_score /\ i >= j)
         IN  <<rows[best]>> \o nlargest_keep_last(RemoveAt(rows, best), n - 1)

\* DataFrame.nlargest(n, 'ranking_score') with keep='first': the n rows of largest
\* ranking_score in descending order, rows of equal score in their original order
RECURSIVE nlargest(_, _)
nlargest(rows, n) ==
    IF n <= 0 \/ rows = <<>> THEN <<>>
    ELSE LET best == CHOOSE i \in DOMAIN rows :
                         \A j \in DOMAIN rows :
                             \/ RLt(rows[j].ranking_score, rows[i].ranking_score)
                             \/ (rows[j].ranking_score = rows[i].ranking_score /\ i <= j)
         IN  <<rows[best]>> \o nlargest(RemoveAt(rows, best), n - 1)

\* self.profile_lookup: the profile row of an id, <<>> when the id has no row
ProfileLookup(profiles, id) ==
    IF \E i \in DOMAIN profiles : profiles[i].profile_id = id
    THEN profiles[CHOOSE i \in DOMAIN profiles : profiles[i].profile_id = id]
    ELSE <<>>

\* _enrich_recommendations for one row
enrich_recommendation(row, profiles) ==
    LET profile == ProfileLookup(profiles, row.candidate_id)
    IN  IF profile = <<>> THEN row
        ELSE [candidate_id |-> row.candidate_id,
              pair_index |-> row.pair_index,
              ranking_score |-> row.ranking_score,
              compatibility_score |-> row.compatibility_score,
              predicted_job_opportunity_score |-> row.predicted_job_opportunity_score,
              predicted_mentorship_value |-> row.predicted_mentorship_value,
              predicted_collaboration_potential |-> row.predicted_collaboration_potential,
              candidate_name |-> Get(profile, "name", "Unknown")]

\* the rows of pairs_df that involve user_id, with candidate_id added; pair_index is
\* the position of the row in pairs_df (the index label pandas carries along)
UserPairs(pairs, user_id) ==
    LET Involves(i) == pairs[i].profile_a_id = user_id \/ pairs[i].profile_b_id = user_id
        WithCandidate(i) ==
            [candidate_id |-> IF pairs[i].profile_a_id = user_id
                              THEN pairs[i].profile_b_id ELSE pairs[i].profile_a_id,
             pair_index |-> i,
             compatibility_score |-> pairs[i].compatibility_score,
             predicted_job_opportunity_score |-> pairs[i].predicted_job_opportunity_score,
             predicted_mentorship_value |-> pairs[i].predicted_mentorship_value,
             predicted_collaboration_potential |-> pairs[i].predicted_collaboration_potential]
        RECURSIVE Gather(_)
        Gather(i) == IF i > Len(pairs) THEN <<>>
                     ELSE (IF Involves(i) THEN <<WithCandidate(i)>> ELSE <<>>) \o Gather(i + 1)
    IN  Gather(1)

\* mutant of RedFlagProfiles: a score equal to the threshold is flagged too
RedFlagProfiles_inclusive(profiles, threshold) ==
    {profiles[i].profile_id : i \in {k \in DOMAIN profiles : profiles[k].red_flag_score >= threshold}}

\* the profile ids dropped by the red-flag filter
RedFlagProfiles(profiles, threshold) ==
    {profiles[i].profile_id : i \in {k \in DOMAIN profiles : profiles[k].red_flag_score > threshold}}

HasRedFlagColumn(profiles) ==
    \E i \in DOMAIN profiles : "red_flag_score" \in DOMAIN profiles[i]

\* mutant of FilteredPairs: a pair exactly at min_compatibility is dropped
FilteredPairs_strict(pairs, profiles, filtering, threshold, user_id, min_compatibility) ==
    LET user_pairs == UserPairs(pairs, user_id)
        Compatible(row) == row.compatibility_score > min_compatibility
        after_min == SelectSeq(user_pairs, Compatible)
        NotFlagged(row) == row.candidate_id \notin RedFlagProfiles(profiles, threshold)
    IN  IF filtering /\ HasRedFlagColumn(profiles)
        THEN SelectSeq(after_min, NotFlagged)
        ELSE after_min

\* the rows that are ranked: compatibility filter, then red-flag filter
FilteredPairs(pairs, profiles, filtering, threshold, user_id, min_compatibility) ==
    LET user_pairs == UserPairs(pairs, user_id)
        Compatible(row) == row.compatibility_score >= min_compatibility
        after_min == SelectSeq(user_pairs, Compatible)
        NotFlagged(row) == row.candidate_id \notin RedFlagProfiles(profiles, threshold)
    IN  IF filtering /\ HasRedFlagColumn(profiles)
        THEN SelectSeq(after_min, NotFlagged)
        ELSE after_min

WithRanking(rows, strategy) ==
    [i \in DOMAIN rows |->
        [candidate_id |-> rows[i].candidate_id,
         pair_index |-> rows[i].pair_index,
         ranking_score |-> calculate_ranking_score(rows[i], strategy),
         compatibility_score |-> rows[i].compatibility_score,
         predicted_job_opportunity_score |-> rows[i].predicted_job_opportunity_score,
         predicted_mentorship_value |-> rows[i].predicted_mentorship_value,
         predicted_collaboration_potential |-> rows[i].predicted_collaboration_potential]]

recommend_for_user(pairs, profiles, filtering, threshold, user_id, top_n, min_compatibility, strategy) ==
    LET user_pairs == UserPairs(pairs, user_id)
        ranked == WithRanking(FilteredPairs(pairs, profiles, filtering, threshold,
                                            user_id, min_compatibility), strategy)
        top == nlargest(ranked, top_n)
    IN  IF user_pairs = <<>> THEN <<>>
        ELSE [i \in DOMAIN top |-> enrich_recommendation(top[i], profiles)]

\* ---- inputs of the recommender ----
MaxPairs == 3
MaxTopN  == 2

UserIds == {"p1"}
IdPairs == {<<"p1", "p2">>, <<"p2", "p1">>, <<"p3", "p1">>, <<"p2", "p3">>}

\* (compatibility, job opportunity, mentorship value, collaboration potential)
ScoreChoices == {<<50, 20, 90, 30>>, <<80, 60, 40, 70>>, <<80, 60, 70, 70>>}

MinCompatibilityChoices == {50, 80}

PairRows ==
    { [profile_a_id |-> ip[1], profile_b_id |-> ip[2],
       compatibility_score |-> sc[1],
       predicted_job_opportunity_score |-> sc[2],
       predicted_mentorship_value |-> sc[3],
       predicted_collaboration_potential |-> sc[4]] : ip \in IdPairs, sc \in ScoreChoices }

PairTables == UNION { [1..n -> PairRows] : n \in 0..MaxPairs }

ProfileTables ==
    { << [profile_id |-> "p1", name |-> "Ann", red_flag_score |-> 0],
         [profile_id |-> "p2", name |-> "Bo",  red_flag_score |-> 50],
         [profile_id |-> "p3", name |-> "Cy",  red_flag_score |-> 80] >>,
      << [profile_id |-> "p1", name |-> "Ann", red_flag_score |-> 60],
         [profile_id |-> "p2", name |-> "Bo",  red_flag_score |-> 51] >>,
      << [profile_id |-> "p1", name |-> "Ann"],
         [profile_id |-> "p2", name |-> "Bo"],
         [profile_id |-> "p3", name |-> "Cy"] >> }

(***************************************************************************)
(* Specification of the recommender: a recommender constructed over a      *)
(* pairs table and a profiles table, serving recommend_for_user calls.     *)
(***************************************************************************)
InitRec ==
    /\ pairs_df \in PairTables
    /\ profiles_df \in ProfileTables
    /\ filter_red_flags \in BOOLEAN
    /\ red_flag_threshold = DefaultRedFlagThreshold
    /\ rec_call = [called |-> FALSE]
    /\ recommendations = <<>>
    /\ evaluation = <<>>
    /\ FeatIdle /\ ApiIdle /\ GemIdle /\ RarIdle /\ RfIdle /\ MentIdle /\ GaIdle /\ ScIdle

\* One call is served per behaviour: the call reads the recommender and leaves it
\* unchanged, so any later call behaves as a first call.
RecommendForUser ==
    /\ ~rec_call.called
    /\ \E user_id \in UserIds, top_n \in 1..MaxTopN,
       min_compatibility \in MinCompatibilityChoices, strategy \in Strategies :
           /\ rec_call' = [called |-> TRUE, user_id |-> user_id, top_n |-> top_n,
                        min_compatibility |-> min_compatibility, strategy |-> strategy]
           /\ recommendations' = recommend_for_user(pairs_df, profiles_df, filter_red_flags,
                                                    red_flag_threshold, user_id, top_n,
                                                    min_compatibility, strategy)
           /\ UNCHANGED <<pairs_df, profiles_df, filter_red_flags, red_flag_threshold,
                          evaluation, featVars, apiVars, gemVars, rarVars, rfVars, mentVars, gaVars, scVars>>

NextRec == RecommendForUser

SpecRec == InitRec /\ [][NextRec]_vars

\* ---- vocabulary of the recommender claims ----
\* row i of pairs_df links the user of the served call to a candidate
InvolvesUser(i) ==
    pairs_df[i].profile_a_id = rec_call.user_id \/ pairs_df[i].profile_b_id = rec_call.user_id

CandidateOf(i) ==
    IF pairs_df[i].profile_a_id = rec_call.user_id
    THEN pairs_df[i].profile_b_id ELSE pairs_df[i].profile_a_id

\* red_flag_score of a profile id, -1 when the profiles table has no such score
RedFlagScoreOf(id) ==
    LET profile == ProfileLookup(profiles_df, id)
    IN  IF profile # <<>> /\ "red_flag_score" \in DOMAIN profile THEN profile.red_flag_score ELSE -1

RedFlagFilterActive == filter_red_flags /\ HasRedFlagColumn(profiles_df)

\* row i of pairs_df passes both filters of the served call
Survives(i) ==
    /\ InvolvesUser(i)
    /\ pairs_df[i].compatibility_score >= rec_call.min_compatibility
    /\ ~(RedFlagFilterActive /\ RedFlagScoreOf(CandidateOf(i)) > red_flag_threshold)

\* 100 * ranking_score of row i of pairs_df under each strategy, in integers
Ranking100(i, strategy) ==
    LET row == pairs_df[i]
    IN  CASE strategy = "roi" ->
                40 * row.compatibility_score + 25 * row.predicted_job_opportunity_score
                + 20 * row.predicted_mentorship_value + 15 * row.predicted_collaboration_potential
          [] strategy = "mentorship" ->
                60 * row.predicted_mentorship_value + 40 * row.compatibility_score
          [] strategy = "collaboration" ->
                60 * row.predicted_collaboration_potential + 40 * row.compatibility_score
          [] OTHER -> 100 * row.compatibility_score

Returned(i) == \E k \in DOMAIN recommendations : recommendations[k].pair_index = i

\* row x is ordered before row y: higher ranking_score, or equal score and earlier in pairs_df
Before(score_x, index_x, score_y, index_y) ==
    RGt(score_x, score_y) \/ (score_x = score_y /\ index_x < index_y)

\* a pair that passes the filters is returned, or loses to every returned row of a full result
RankedFairly(i) ==
    \/ Returned(i)
    \/ /\ Len(recommendations) = rec_call.top_n
       /\ \A k \in DOMAIN recommendations :
              RGe(recommendations[k].ranking_score, Frac(Ranking100(i, rec_call.strategy), 100))

\* C3: recommend_for_user returns exactly the first top_n of the surviving pairs in
\* descending ranking_score order, equal scores in pairs_df order; so the output is
\* sorted descending and has at most top_n rows.
C3_TopNStableDescending ==
    rec_call.called =>
        LET survivors == {i \in DOMAIN pairs_df : Survives(i)}
            out == recommendations
        IN  /\ Len(out) <= rec_call.top_n
            /\ Len(out) = IF Cardinality(survivors) < rec_call.top_n
                          THEN Cardinality(survivors) ELSE rec_call.top_n
            /\ \A k \in DOMAIN out : out[k].pair_index \in survivors
            /\ \A k, l \in DOMAIN out :
                   k < l => /\ RGe(out[k].ranking_score, out[l].ranking_score)
                            /\ Before(out[k].ranking_score, out[k].pair_index,
                                      out[l].ranking_score, out[l].pair_index)
            /\ \A i \in survivors :
                   ~Returned(i) =>
                       \A k \in DOMAIN out :
                           Before(out[k].ranking_score, out[k].pair_index,
                                  Frac(Ranking100(i, rec_call.strategy), 100), i)

\* C3 witness: three pairs survive, two are returned, the two returned rows tie on
\* ranking_score and a surviving pair with the same score is cut off by top_n.
C3_Witness ==
    /\ rec_call.called
    /\ rec_call.top_n = 2
    /\ Len(recommendations) = 2
    /\ Cardinality({i \in DOMAIN pairs_df : Survives(i)}) = 3
    /\ recommendations[1].ranking_score = recommendations[2].ranking_score
    /\ recommendations[1].compatibility_score # recommendations[2].compatibility_score
    /\ \E i \in DOMAIN pairs_df :
           /\ Survives(i) /\ ~Returned(i)
           /\ Frac(Ranking100(i, rec_call.strategy), 100) = recommendations[2].ranking_score

\* C4: no returned row has compatibility_score below min_compatibility, and every pair
\* of the user at or above min_compatibility that the red-flag filter keeps takes
\* part in the ranking.
C4_MinCompatibility ==
    rec_call.called =>
        /\ \A k \in DOMAIN recommendations :
               recommendations[k].compatibility_score >= rec_call.min_compatibility
        /\ \A i \in DOMAIN pairs_df :
               ( /\ InvolvesUser(i)
                 /\ pairs_df[i].compatibility_score >= rec_call.min_compatibility
                 /\ ~(RedFlagFilterActive /\ RedFlagScoreOf(CandidateOf(i)) > red_flag_threshold) )
               => RankedFairly(i)

\* C4 witness: a pair exactly at min_compatibility is returned while a pair of the
\* same user below min_compatibility is left out of a result that is not full.
C4_Witness ==
    /\ rec_call.called
    /\ \E k \in DOMAIN recommendations :
           recommendations[k].compatibility_score = rec_call.min_compatibility
    /\ Len(recommendations) < rec_call.top_n
    /\ \E i \in DOMAIN pairs_df :
           /\ InvolvesUser(i)
           /\ pairs_df[i].compatibility_score < rec_call.min_compatibility
           /\ ~Returned(i)

\* C5: with red-flag filtering enabled and red_flag_score present, no returned
\* candidate has red_flag_score above red_flag_threshold, and a candidate whose
\* red_flag_score equals the threshold is not dropped by the filter.
C5_RedFlagFilter ==
    (rec_call.called /\ RedFlagFilterActive) =>
        /\ \A k \in DOMAIN recommendations :
               RedFlagScoreOf(recommendations[k].candidate_id) <= red_flag_threshold
        /\ \A i \in DOMAIN pairs_df :
               ( /\ InvolvesUser(i)
                 /\ pairs_df[i].compatibility_score >= rec_call.min_compatibility
                 /\ RedFlagScoreOf(CandidateOf(i)) = red_flag_threshold )
               => RankedFairly(i)

\* C5 witness: a candidate exactly at the threshold is returned and a candidate above
\* it, with sufficient compatibility, is left out of a result that is not full.
C5_Witness ==
    /\ rec_call.called /\ RedFlagFilterActive
    /\ \E k \in DOMAIN recommendations :
           RedFlagScoreOf(recommendations[k].candidate_id) = red_flag_threshold
    /\ Len(recommendations) < rec_call.top_n
    /\ \E i \in DOMAIN pairs_df :
           /\ InvolvesUser(i)
           /\ pairs_df[i].compatibility_score >= rec_call.min_compatibility
           /\ RedFlagScoreOf(CandidateOf(i)) > red_flag_threshold
           /\ ~Returned(i)

\* C6: ranking_score is compatibility_score under 'compatibility', 'balanced' and any
\* unrecognised strategy, 0.4c + 0.25j + 0.2m + 0.15k under 'roi', 0.6m + 0.4c under
\* 'mentorship' and 0.6k + 0.4c under 'collaboration'; so 'mentorship' ranks a pair
\* with mentorship_value 90, compatibility 50 above one with 40 and 80.
C6_RankingScore ==
    rec_call.called =>
        /\ \A k \in DOMAIN recommendations :
               LET row == recommendations[k]
                   c == row.compatibility_score
                   j == row.predicted_job_opportunity_score
                   m == row.predicted_mentorship_value
                   col == row.predicted_collaboration_potential
                   expected ==
                       CASE rec_call.strategy = "roi" -> 40 * c + 25 * j + 20 * m + 15 * col
                         [] rec_call.strategy = "mentorship" -> 60 * m + 40 * c
                         [] rec_call.strategy = "collaboration" -> 60 * col + 40 * c
                         [] OTHER -> 100 * c
               IN  /\ row.ranking_score[1] * 100 = expected * row.ranking_score[2]
                   /\ c = pairs_df[row.pair_index].compatibility_score
                   /\ m = pairs_df[row.pair_index].predicted_mentorship_value
        /\ rec_call.strategy = "mentorship" =>
               \A k, l \in DOMAIN recommendations :
                   ( /\ recommendations[k].predicted_mentorship_value = 90
                     /\ recommendations[k].compatibility_score = 50
                     /\ recommendations[l].predicted_mentorship_value = 40
                     /\ recommendations[l].compatibility_score = 80 )
                   => k < l

\* C6 witness: under 'mentorship' the (90, 50) pair is returned first with score 74
\* and the (40, 80) pair second with score 56, although it was inserted first.
C6_Witness ==
    /\ rec_call.called
    /\ rec_call.strategy = "mentorship"
    /\ Len(recommendations) = 2
    /\ recommendations[1].predicted_mentorship_value = 90
    /\ recommendations[1].compatibility_score = 50
    /\ recommendations[1].ranking_score = R(74)
    /\ recommendations[2].predicted_mentorship_value = 40
    /\ recommendations[2].compatibility_score = 80
    /\ recommendations[2].ranking_score = R(56)
    /\ recommendations[2].pair_index < recommendations[1].pair_index

(***************************************************************************)
(* Score prediction paths                                                  *)
(*   model-api/app.py            Flask route /predict -> predict_compatibility *)
(*   7_real_profile_tester.py    predict_compatibility                      *)
(*   src/api/main.py             /api/v1/compatibility, /api/v1/batch-score *)
(*   src/models/compatibility_scorer.py   train, predict, predict_single    *)
(* The trained model is external: its answer to one predict call is any    *)
(* value of PredictorOutcomes, Raised standing for an exception.            *)
(***************************************************************************)
PredictorScores ==
    {R(-5), R(0), Frac(593, 10), Frac(79996, 1000), R(100), R(120)}

Raised == [kind |-> "raise"]
PredictorOutcomes == {[kind |-> "score", value |-> v] : v \in PredictorScores} \cup {Raised}

\* red_flag_score of a profile of a request; -1 stands for a profile without the key
RedFlagChoices == {-1, 25, 26, 50, 51, 75, 76, 80}

\* target_profile.get('red_flag_score', 0)
RedFlagOr0(red_flag) == IF red_flag = -1 THEN 0 ELSE red_flag

\* mutant of red_flag_multiplier: the band limits are inclusive
red_flag_multiplier_inclusive(red_flag) ==
    IF red_flag >= 75 THEN Frac(80, 100)
    ELSE IF red_flag >= 50 THEN Frac(90, 100)
    ELSE IF red_flag >= 25 THEN Frac(95, 100)
    ELSE R(1)

\* model-api/app.py, "Apply red flag penalty"
red_flag_multiplier(red_flag) ==
    IF red_flag > 75 THEN Frac(80, 100)
    ELSE IF red_flag > 50 THEN Frac(90, 100)
    ELSE IF red_flag > 25 THEN Frac(95, 100)
    ELSE R(1)

\* model-api/app.py predict_compatibility: the dict built from the predicted score
model_api_predict_compatibility(user_red_flag, target_red_flag, score) ==
    LET red_flag == RedFlagOr0(target_red_flag)
        multiplier == red_flag_multiplier(red_flag)
        final_score == RMul(score, multiplier)
    IN  [status |-> "200",
         score |-> RoundTo(final_score, 10),
         raw_score |-> RoundTo(score, 10),
         red_flag_multiplier |-> multiplier,
         model |-> "xgboost_v3"]

\* 7_real_profile_tester.py predict_compatibility: the score after the penalty
tester_predict_compatibility(user_red_flag, target_red_flag, score) ==
    LET red_flag == RedFlagOr0(target_red_flag)
    IN  IF red_flag > 75 THEN RMul(score, Frac(80, 100))
        ELSE IF red_flag > 50 THEN RMul(score, Frac(90, 100))
        ELSE IF red_flag > 25 THEN RMul(score, Frac(95, 100))
        ELSE score

\* max(0, min(100, score)) and np.clip(predictions, 0, 100)
Clip(score) == RMax(R(0), RMin(R(100), score))

\* src/api/main.py _get_recommendation
get_recommendation(score) ==
    IF RGe(score, R(80)) THEN "Highly Recommended - Excellent mutual benefit potential"
    ELSE IF RGe(score, R(60)) THEN "Recommended - Good compatibility"
    ELSE IF RGe(score, R(40)) THEN "Consider - Moderate compatibility"
    ELSE "Not Recommended - Limited mutual benefit"

\* src/api/main.py _generate_explanation: the clauses that " | ".join concatenates
api_generate_explanation(request) ==
    LET explanations ==
            (IF request.skill_complementarity_score > 70
             THEN <<"Strong skill complementarity">> ELSE <<>>)
            \o (IF request.career_alignment_score > 70
                THEN <<"Good career stage alignment">> ELSE <<>>)
            \o (IF request.network_value_a_to_b > 60 \/ request.network_value_b_to_a > 60
                THEN <<"Valuable network connections">> ELSE <<>>)
            \o (IF request.industry_match > 80 THEN <<"Same industry">> ELSE <<>>)
            \o (IF request.geographic_score > 80 THEN <<"Geographic proximity">> ELSE <<>>)
    IN  IF explanations = <<>> THEN <<"Limited mutual benefit factors">> ELSE explanations

\* src/api/main.py calculate_compatibility
\* variant: a failed prediction is answered with a neutral score
calculate_compatibility_fallback(model, request, outcome) ==
    IF model = "none" THEN [status |-> "503", detail |-> "Model not loaded"]
    ELSE LET score == IF outcome = Raised THEN R(50) ELSE Clip(outcome.value)
         IN  [status |-> "200",
              compatibility_score |-> RoundTo(score, 100),
              recommendation |-> get_recommendation(score),
              explanation |-> api_generate_explanation(request)]

calculate_compatibility(model, request, outcome) ==
    IF model = "none" THEN [status |-> "503", detail |-> "Model not loaded"]
    ELSE IF outcome = Raised THEN [status |-> "500", detail |-> "Prediction error"]
    ELSE LET score == Clip(outcome.value)
         IN  [status |-> "200",
              compatibility_score |-> RoundTo(score, 100),
              recommendation |-> get_recommendation(score),
              explanation |-> api_generate_explanation(request)]

\* variant: the results are appended in front of the list
batch_score_reversed(model, pairs, outcomes) ==
    IF model = "none" THEN [status |-> "503", detail |-> "Model not loaded"]
    ELSE IF \E i \in DOMAIN pairs : outcomes[i] = Raised
    THEN [status |-> "500", detail |-> "Batch prediction error"]
    ELSE [status |-> "200",
          results |-> [i \in DOMAIN pairs |->
                          LET k == Len(pairs) + 1 - i
                          IN  [pair_id |-> pairs[k].pair_id,
                               compatibility_score |-> RoundTo(Clip(outcomes[k].value), 100),
                               recommendation |-> get_recommendation(Clip(outcomes[k].value))]]]

\* src/api/main.py batch_score; outcomes[i] is the predictor's answer for pairs[i]
batch_score(model, pairs, outcomes) ==
    IF model = "none" THEN [status |-> "503", detail |-> "Model not loaded"]
    ELSE IF \E i \in DOMAIN pairs : outcomes[i] = Raised
    THEN [status |-> "500", detail |-> "Batch prediction error"]
    ELSE [status |-> "200",
          results |-> [i \in DOMAIN pairs |->
                          [pair_id |-> pairs[i].pair_id,
                           compatibility_score |-> RoundTo(Clip(outcomes[i].value), 100),
                           recommendation |-> get_recommendation(Clip(outcomes[i].value))]]]

\* CompatibilityScorer.predict for one row
scorer_predict(trained, outcome) ==
    IF ~trained THEN [kind |-> "ValueError"]
    ELSE IF outcome = Raised THEN Raised
    ELSE [kind |-> "score", value |-> Clip(outcome.value)]

\* CompatibilityScorer.predict_single
predict_single(trained, outcome) ==
    LET predicted == scorer_predict(trained, outcome)
        score == predicted.value
    IN  IF predicted.kind = "ValueError" THEN [status |-> "ValueError"]
        ELSE IF predicted.kind = "raise" THEN [status |-> "exception"]
        ELSE [status |-> "200",
              compatibility_score |-> score,
              tier |-> IF RGe(score, R(80)) THEN "EXCELLENT"
                       ELSE IF RGe(score, R(60)) THEN "GOOD"
                       ELSE IF RGe(score, R(40)) THEN "MODERATE" ELSE "LOW",
              recommendation |-> IF RGe(score, R(80)) THEN "Connect immediately"
                                 ELSE IF RGe(score, R(60)) THEN "Worth considering"
                                 ELSE IF RGe(score, R(40)) THEN "Evaluate carefully"
                                 ELSE "Low priority"]

\* ---- inputs of the prediction paths ----
MaxBatch == 2

RequestChoices ==
    { [skill_match_score |-> 0, skill_complementarity_score |-> 0,
       network_value_a_to_b |-> 0, network_value_b_to_a |-> 0,
       career_alignment_score |-> 0, experience_gap |-> 0, industry_match |-> 0,
       geographic_score |-> 0, seniority_match |-> 0],
      [skill_match_score |-> 75, skill_complementarity_score |-> 85,
       network_value_a_to_b |-> 65, network_value_b_to_a |-> 70,
       career_alignment_score |-> 80, experience_gap |-> 5, industry_match |-> 90,
       geographic_score |-> 60, seniority_match |-> 70] }

PairIds == {"pair_001", "pair_002"}

\* the predictor's answers tried per item of a batch
BatchOutcomes ==
    {Raised, [kind |-> "score", value |-> Frac(593, 10)], [kind |-> "score", value |-> R(120)]}

(***************************************************************************)
(* Specification of the prediction paths: the services after start-up and  *)
(* a freshly constructed CompatibilityScorer, serving requests one by one. *)
(***************************************************************************)
InitApi ==
    /\ api_model \in {"none", "loaded"}
    /\ req = [path |-> "none"]
    /\ resp = [status |-> "none"]
    /\ trace = <<>>
    /\ is_trained = FALSE
    /\ FeatIdle /\ RecIdle /\ GemIdle /\ RarIdle /\ RfIdle /\ MentIdle /\ GaIdle /\ ScIdle

\* Flask route /predict of model-api/app.py
ModelApiPredict ==
    \E user_rf \in {-1, 80}, target_rf \in RedFlagChoices, outcome \in PredictorOutcomes :
        /\ req' = [path |-> "model_api", user_red_flag |-> user_rf,
                   target_red_flag |-> target_rf, predicted |-> outcome]
        /\ IF outcome = Raised
           THEN /\ resp' = [status |-> "500"]
                /\ trace' = <<"calculate_scores", "predict">>
           ELSE /\ resp' = model_api_predict_compatibility(user_rf, target_rf, outcome.value)
                /\ trace' = <<"calculate_scores", "predict", "penalty", "return">>
        /\ UNCHANGED <<api_model, is_trained, featVars, recVars, gemVars, rarVars, rfVars, mentVars, gaVars, scVars>>

\* predict_compatibility of 7_real_profile_tester.py
TesterPredict ==
    \E user_rf \in {-1, 80}, target_rf \in RedFlagChoices, outcome \in PredictorOutcomes :
        /\ req' = [path |-> "tester", user_red_flag |-> user_rf,
                   target_red_flag |-> target_rf, predicted |-> outcome]
        /\ IF outcome = Raised
           THEN /\ resp' = [status |-> "exception"]
                /\ trace' = <<"calculate_all_scores", "predict">>
           ELSE /\ resp' = [status |-> "200",
                            score |-> tester_predict_compatibility(user_rf, target_rf, outcome.value)]
                /\ trace' = <<"calculate_all_scores", "predict", "penalty", "return">>
        /\ UNCHANGED <<api_model, is_trained, featVars, recVars, gemVars, rarVars, rfVars, mentVars, gaVars, scVars>>

\* POST /api/v1/compatibility
CalculateCompatibility ==
    \E request \in RequestChoices, target_rf \in RedFlagChoices, outcome \in PredictorOutcomes :
        /\ req' = [path |-> "compatibility", request |-> request,
                   target_red_flag |-> target_rf, predicted |-> outcome]
        /\ resp' = calculate_compatibility(api_model, request, outcome)
        /\ trace' = IF api_model = "none" THEN <<>>
                    ELSE IF outcome = Raised THEN <<"prepare_features", "predict">>
                    ELSE <<"prepare_features", "predict", "clip", "return">>
        /\ UNCHANGED <<api_model, is_trained, featVars, recVars, gemVars, rarVars, rfVars, mentVars, gaVars, scVars>>

\* POST /api/v1/batch-score
BatchScore ==
    \E n \in 1..MaxBatch :
      \E ids \in [1..n -> PairIds], outcomes \in [1..n -> BatchOutcomes] :
        LET pairs == [i \in 1..n |-> [pair_id |-> ids[i]]]
            failed == {i \in 1..n : outcomes[i] = Raised}
        IN  /\ req' = [path |-> "batch_score", pairs |-> pairs, predicted |-> outcomes]
            /\ resp' = batch_score(api_model, pairs, outcomes)
            /\ trace' = IF api_model = "none" THEN <<>>
                        ELSE IF failed # {} THEN <<"prepare_features", "predict">>
                        ELSE <<"prepare_features", "predict", "clip", "return">>
            /\ UNCHANGED <<api_model, is_trained, featVars, recVars, gemVars, rarVars, rfVars, mentVars, gaVars, scVars>>

\* CompatibilityScorer.train
Train ==
    /\ is_trained' = TRUE
    /\ req' = [path |-> "train"]
    /\ resp' = [status |-> "metrics"]
    /\ trace' = <<"fit">>
    /\ UNCHANGED <<api_model, featVars, recVars, gemVars, rarVars, rfVars, mentVars, gaVars, scVars>>

\* CompatibilityScorer.predict_single
PredictSingle ==
    \E target_rf \in RedFlagChoices, outcome \in PredictorOutcomes :
        /\ req' = [path |-> "predict_single", target_red_flag |-> target_rf,
                   predicted |-> outcome]
        /\ resp' = predict_single(is_trained, outcome)
        /\ trace' = IF ~is_trained THEN <<"prepare_features">>
                    ELSE IF outcome = Raised THEN <<"prepare_features", "predict">>
                    ELSE <<"prepare_features", "predict", "clip", "return">>
        /\ UNCHANGED <<api_model, is_trained, featVars, recVars, gemVars, rarVars, rfVars, mentVars, gaVars, scVars>>

NextApi ==
    \/ ModelApiPredict
    \/ TesterPredict
    \/ CalculateCompatibility
    \/ BatchScore
    \/ Train
    \/ PredictSingle

SpecApi == InitApi /\ [][NextApi]_vars

\* ---- vocabulary of the prediction-path claims ----
Answered(paths) == req.path \in paths /\ resp.status = "200"

\* the penalty bands as the specification states them
BandMultiplier(red_flag) ==
    CASE red_flag > 75 -> Frac(80, 100)
      [] red_flag > 50 /\ red_flag <= 75 -> Frac(90, 100)
      [] red_flag > 25 /\ red_flag <= 50 -> Frac(95, 100)
      [] OTHER -> R(1)

StepsInOrder(first, second, third) ==
    \E i, j, k \in DOMAIN trace :
        i < j /\ j < k /\ trace[i] = first /\ trace[j] = second /\ trace[k] = third

\* C2: whatever the external predictor returns, the final score handed back by
\* model-api predict_compatibility and by the FastAPI compatibility and batch-score
\* endpoints is within [0, 100].
C2_FinalScoreClamped ==
    /\ Answered({"model_api"}) => InRange(resp.score)
    /\ Answered({"compatibility"}) => InRange(resp.compatibility_score)
    /\ Answered({"batch_score"}) =>
           \A i \in DOMAIN resp.results : InRange(resp.results[i].compatibility_score)

C8_PenaltyAlwaysApplied ==
    Answered({"model_api", "compatibility", "batch_score", "predict_single"}) =>
        StepsInOrder("predict", "penalty", "return")

(***************************************************************************)
(* HiddenGemsDetector                                                      *)
(***************************************************************************)
RSub(x, y) == RAdd(x, <<-y[1], y[2]>>)

\* variant: the 5%-15% band falls three times as fast
Rarity_steep(count, total_profiles) ==
    LET frequency == Frac(count, total_profiles)
    IN  IF RLt(frequency, Frac(5, 100))
        THEN RAdd(R(90), RMul(RSub(Frac(5, 100), frequency), R(200)))
        ELSE IF RLt(frequency, Frac(15, 100))
        THEN RAdd(R(70), RMul(RSub(Frac(15, 100), frequency), R(300)))
        ELSE IF RLt(frequency, Frac(30, 100))
        THEN RAdd(R(40), RMul(RSub(Frac(30, 100), frequency), R(100)))
        ELSE RMax(R(10), RSub(R(40), RMul(frequency, R(50))))

\* rarity of a skill that `count` of `total_profiles` profiles list
\* (the body of the loop of _calculate_skill_rarity)
Rarity(count, total_profiles) ==
    LET frequency == Frac(count, total_profiles)
    IN  IF RLt(frequency, Frac(5, 100))
        THEN RAdd(R(90), RMul(RSub(Frac(5, 100), frequency), R(200)))
        ELSE IF RLt(frequency, Frac(15, 100))
        THEN RAdd(R(70), RMul(RSub(Frac(15, 100), frequency), R(100)))
        ELSE IF RLt(frequency, Frac(30, 100))
        THEN RAdd(R(40), RMul(RSub(Frac(30, 100), frequency), R(100)))
        ELSE RMax(R(10), RSub(R(40), RMul(frequency, R(50))))

\* the keys of skill_counts: every skill some profile lists
AllSkills(profiles) == UNION {Get(profiles[i], "skills", {}) : i \in DOMAIN profiles}

\* skill_counts[skill]
SkillCount(profiles, skill) ==
    Cardinality({i \in DOMAIN profiles : skill \in Get(profiles[i], "skills", {})})

\* the map a complete run of _calculate_skill_rarity over `profiles` leaves in an
\* empty skill_rarity_map
RarityMapOf(profiles) ==
    [skill \in AllSkills(profiles) |-> Rarity(SkillCount(profiles, skill), Len(profiles))]

high_value_skills ==
    {"Machine Learning", "Deep Learning", "AI", "Data Science", "Python",
     "Cloud Architecture", "Kubernetes", "AWS", "Product Management", "Fundraising",
     "Growth Marketing", "UI/UX Design", "React", "TypeScript", "Go", "Rust"}

calculate_skill_rarity_fallback(profile) ==
    LET valuable_skills == Get(profile, "skills", {}) \cap high_value_skills
    IN  IF Cardinality(valuable_skills) >= 4 THEN R(80)
        ELSE IF Cardinality(valuable_skills) >= 2 THEN R(60)
        ELSE IF Cardinality(valuable_skills) >= 1 THEN R(40)
        ELSE R(20)

RECURSIVE RSum(_, _)
RSum(f, keys) ==
    IF keys = {} THEN R(0)
    ELSE LET k == CHOOSE x \in keys : TRUE IN RAdd(f[k], RSum(f, keys \ {k}))

calculate_skill_rarity_score(profile, rarity_map) ==
    LET skills == Get(profile, "skills", {})
        rarity_scores == [s \in skills |-> IF s \in DOMAIN rarity_map THEN rarity_map[s] ELSE R(30)]
        avg_rarity == RMul(RSum(rarity_scores, skills), Frac(1, Cardinality(skills)))
        rare_skills == {s \in skills : s \in DOMAIN rarity_map /\ RGt(rarity_map[s], R(70))}
    IN  IF DOMAIN rarity_map = {} THEN calculate_skill_rarity_fallback(profile)
        ELSE IF skills = {} THEN R(0)
        ELSE IF Cardinality(rare_skills) >= 3 THEN RMin(R(100), RMul(avg_rarity, Frac(13, 10)))
        ELSE IF Cardinality(rare_skills) >= 2 THEN RMin(R(100), RMul(avg_rarity, Frac(12, 10)))
        ELSE avg_rarity

\* top_companies of _calculate_rising_star_score
top_companies ==
    {<<"G", "o", "o", "g", "l", "e">>,
     <<"M", "i", "c", "r", "o", "s", "o", "f", "t">>,
     <<"A", "m", "a", "z", "o", "n">>,
     <<"M", "e", "t", "a">>,
     <<"A", "p", "p", "l", "e">>,
     <<"N", "e", "t", "f", "l", "i", "x">>,
     <<"T", "e", "s", "l", "a">>,
     <<"U", "b", "e", "r">>,
     <<"A", "i", "r", "b", "n", "b">>,
     <<"S", "t", "r", "i", "p", "e">>}

\* valuable_industries of _calculate_super_connector_score
valuable_industries ==
    {<<"T", "e", "c", "h", "n", "o", "l", "o", "g", "y">>,
     <<"F", "i", "n", "a", "n", "c", "e">>,
     <<"C", "o", "n", "s", "u", "l", "t", "i", "n", "g">>}

\* specialized_domains of _calculate_super_connector_score
specialized_domains ==
    <<{"Machine Learning", "Deep Learning", "AI"},
      {"Product Management", "Strategy", "Growth"},
      {"Fundraising", "VC", "Investment"},
      {"Design", "UI/UX Design", "Figma"}>>

calculate_undervalued_score(profile) ==
    LET years_exp == Get(profile, "years_experience", 0)
        connections == Get(profile, "connections", 0)
        expected_connections == years_exp * 100
        skills_count == Cardinality(Get(profile, "skills", {}))
        education == Get(profile, "education", <<>>)
        seniority == Get(profile, "seniority_level", "mid")
        score == (IF connections * 10 < expected_connections * 3 /\ years_exp >= 3 THEN 40
                  ELSE IF connections * 10 < expected_connections * 5 /\ years_exp >= 2 THEN 25
                  ELSE 0)
                 + (IF skills_count >= 12 /\ connections < 500 THEN 30 ELSE 0)
                 + (IF Len(education) >= 1 /\ connections < 300 THEN 15 ELSE 0)
                 + (IF seniority \in {"senior", "executive"} /\ connections < 1000 THEN 15 ELSE 0)
    IN  R(Min(100, score))

calculate_rising_star_score(profile) ==
    LET years_exp == Get(profile, "years_experience", 0)
        seniority == Get(profile, "seniority_level", "mid")
        skills_count == Cardinality(Get(profile, "skills", {}))
        expected_skills == RAdd(R(5), RMul(R(years_exp), Frac(15, 10)))
        company == Get(profile, "current_company", <<>>)
        score == (IF seniority = "senior" /\ 5 <= years_exp /\ years_exp <= 8 THEN 40
                  ELSE IF seniority = "executive" /\ 10 <= years_exp /\ years_exp <= 15 THEN 50
                  ELSE 0)
                 + (IF RGt(R(skills_count), RMul(expected_skills, Frac(15, 10))) THEN 30 ELSE 0)
                 + (IF (\E top \in top_companies : IsSubstr(top, company)) /\ years_exp < 5
                    THEN 30 ELSE 0)
    IN  R(Min(100, score))

calculate_super_connector_score(profile) ==
    LET connections == Get(profile, "connections", 0)
        skills == Get(profile, "skills", {})
        industry == Get(profile, "industry", <<>>)
        seniority == Get(profile, "seniority_level", "mid")
        score == (IF 1000 <= connections /\ connections <= 4000 THEN 40
                  ELSE IF 500 <= connections /\ connections <= 1000 THEN 25
                  ELSE 0)
                 + (IF \E d \in DOMAIN specialized_domains :
                           Cardinality(skills \cap specialized_domains[d]) >= 2
                    THEN 30 ELSE 0)
                 + (IF seniority = "executive" THEN 20
                    ELSE IF seniority = "senior" THEN 10 ELSE 0)
                 + (IF \E ind \in valuable_industries : IsSubstr(ind, industry) THEN 10 ELSE 0)
    IN  R(Min(100, score))

\* variant: every indicator counts in full
calculate_overall_gem_score_unweighted(gem_features) ==
    RMin(R(100),
         RAdd(RAdd(gem_features.undervalued_score, gem_features.rising_star_score),
              RAdd(gem_features.super_connector_score, gem_features.skill_rarity_score)))

calculate_overall_gem_score(gem_features) ==
    RMin(R(100),
         RAdd(RAdd(RMul(gem_features.undervalued_score, Frac(30, 100)),
                   RMul(gem_features.rising_star_score, Frac(25, 100))),
              RAdd(RMul(gem_features.super_connector_score, Frac(25, 100)),
                   RMul(gem_features.skill_rarity_score, Frac(20, 100)))))

\* the keys of `scores` in _categorize_gem_type, in insertion order, and the
\* gem_features entry each one reads
gem_type_keys == <<"undervalued", "rising_star", "super_connector", "rare_skills">>

GemTypeScore(gem_features, key) ==
    IF key = "undervalued" THEN gem_features.undervalued_score
    ELSE IF key = "rising_star" THEN gem_features.rising_star_score
    ELSE IF key = "super_connector" THEN gem_features.super_connector_score
    ELSE gem_features.skill_rarity_score

\* max_type.replace("_", " ").title()
TitleOf(key) ==
    IF key = "undervalued" THEN "Undervalued"
    ELSE IF key = "rising_star" THEN "Rising Star"
    ELSE IF key = "super_connector" THEN "Super Connector"
    ELSE "Rare Skills"

\* variant: a dominant score of exactly 40 is not enough
categorize_gem_type_inclusive(gem_features) ==
    LET first_max == CHOOSE i \in DOMAIN gem_type_keys :
            /\ \A j \in DOMAIN gem_type_keys :
                   RLe(GemTypeScore(gem_features, gem_type_keys[j]),
                       GemTypeScore(gem_features, gem_type_keys[i]))
            /\ \A j \in 1..(i - 1) :
                   RLt(GemTypeScore(gem_features, gem_type_keys[j]),
                       GemTypeScore(gem_features, gem_type_keys[i]))
        max_type == gem_type_keys[first_max]
        max_score == GemTypeScore(gem_features, max_type)
    IN  IF RLe(max_score, R(40)) THEN "none" ELSE TitleOf(max_type)

\* max(scores, key=scores.get) is the first key, in insertion order, with the
\* largest score
categorize_gem_type(gem_features) ==
    LET first_max == CHOOSE i \in DOMAIN gem_type_keys :
            /\ \A j \in DOMAIN gem_type_keys :
                   RLe(GemTypeScore(gem_features, gem_type_keys[j]),
                       GemTypeScore(gem_features, gem_type_keys[i]))
            /\ \A j \in 1..(i - 1) :
                   RLt(GemTypeScore(gem_features, gem_type_keys[j]),
                       GemTypeScore(gem_features, gem_type_keys[i]))
        max_type == gem_type_keys[first_max]
        max_score == GemTypeScore(gem_features, max_type)
    IN  IF RLt(max_score, R(40)) THEN "none" ELSE TitleOf(max_type)

\* the reasons joined by " | ", kept as the list of their parts
generate_gem_explanation(gem_features, profile) ==
    LET reasons ==
            (IF RGt(gem_features.undervalued_score, R(50))
             THEN <<[reason |-> "Undervalued",
                     years_exp |-> Get(profile, "years_experience", 0),
                     connections |-> Get(profile, "connections", 0)]>> ELSE <<>>)
            \o (IF RGt(gem_features.rising_star_score, R(50))
                THEN <<[reason |-> "Rising star",
                        seniority |-> Get(profile, "seniority_level", "mid"),
                        years_exp |-> Get(profile, "years_experience", 0)]>> ELSE <<>>)
            \o (IF RGt(gem_features.super_connector_score, R(50))
                THEN <<[reason |-> "Super connector",
                        connections |-> Get(profile, "connections", 0),
                        industry |-> Get(profile, "industry", <<>>)]>> ELSE <<>>)
            \o (IF RGt(gem_features.skill_rarity_score, R(60))
                THEN <<[reason |-> "Rare skills"]>> ELSE <<>>)
    IN  IF reasons = <<>> THEN <<[reason |-> "Not a significant hidden gem"]>> ELSE reasons

analyze_profile(profile, rarity_map) ==
    LET gem_features == [undervalued_score |-> calculate_undervalued_score(profile),
                         rising_star_score |-> calculate_rising_star_score(profile),
                         super_connector_score |-> calculate_super_connector_score(profile),
                         skill_rarity_score |-> calculate_skill_rarity_score(profile, rarity_map)]
    IN  [undervalued_score |-> gem_features.undervalued_score,
         rising_star_score |-> gem_features.rising_star_score,
         super_connector_score |-> gem_features.super_connector_score,
         skill_rarity_score |-> gem_features.skill_rarity_score,
         gem_score |-> calculate_overall_gem_score(gem_features),
         gem_reason |-> generate_gem_explanation(gem_features, profile),
         gem_type |-> categorize_gem_type(gem_features)]


\* ---- inputs of the detector ----
\* A corpus is a sequence of blocks of identical profiles, written out row by row.
MaxBlocks == 2
BigBlock  == 24

GemSkillSets == {{}, {"AI", "Rust"}, {"AI"}, {"SQL"}}

Blocks == {[skills |-> sk, copies |-> c] : sk \in GemSkillSets, c \in {1, BigBlock}}

RECURSIVE Expand(_)
Expand(blocks) ==
    IF blocks = <<>> THEN <<>>
    ELSE [i \in 1..blocks[1].copies |-> [skills |-> blocks[1].skills]] \o Expand(Tail(blocks))

CorpusChoices == {Expand(b) : b \in UNION {[1..n -> Blocks] : n \in 1..MaxBlocks}}

(***************************************************************************)
(* Specification of the detector: a HiddenGemsDetector constructed without *)
(* or with a dataset, running batch_analyze calls one after the other.     *)
(* batch_analyze is followed step by step: the loop of                     *)
(* _calculate_skill_rarity, then the loop over the profiles.               *)
(***************************************************************************)
InitGem ==
    /\ map_corpus \in {<<>>} \cup CorpusChoices
    /\ skill_rarity_map = RarityMapOf(map_corpus)
    /\ corpus = <<>>
    /\ gem_pc = "idle"
    /\ todo = {}
    /\ idx = 0
    /\ gem_data = <<>>
    /\ map_seen = {}
    /\ FeatIdle /\ RecIdle /\ ApiIdle /\ RarIdle /\ RfIdle /\ MentIdle /\ GaIdle /\ ScIdle

\* batch_analyze(profiles_df) up to the test `if not self.skill_rarity_map`
BatchAnalyze ==
    /\ gem_pc = "idle"
    /\ \E profiles \in CorpusChoices :
           /\ corpus' = profiles
           /\ IF DOMAIN skill_rarity_map = {}
              THEN /\ gem_pc' = "rarity"
                   /\ todo' = AllSkills(profiles)
                   /\ map_corpus' = profiles
                   /\ idx' = 0
              ELSE /\ gem_pc' = "analyze"
                   /\ idx' = 1
                   /\ UNCHANGED <<todo, map_corpus>>
    /\ gem_data' = <<>>
    /\ map_seen' = {}
    /\ UNCHANGED <<skill_rarity_map, featVars, recVars, apiVars, rarVars, rfVars, mentVars, gaVars, scVars>>

\* analyze_profiles_for_gems(profiles_df): a new detector constructed over
\* profiles_df, whose batch_analyze(profiles_df) then starts
AnalyzeProfilesForGems ==
    /\ gem_pc = "idle"
    /\ \E profiles \in CorpusChoices :
           /\ corpus' = profiles
           /\ map_corpus' = profiles
           /\ skill_rarity_map' = RarityMapOf(profiles)
           /\ IF AllSkills(profiles) = {}
              THEN gem_pc' = "rarity" /\ idx' = 0
              ELSE gem_pc' = "analyze" /\ idx' = 1
    /\ todo' = {}
    /\ gem_data' = <<>>
    /\ map_seen' = {}
    /\ UNCHANGED <<featVars, recVars, apiVars, rarVars, rfVars, mentVars, gaVars, scVars>>

\* one iteration of the loop `for skill, count in skill_counts.items()`
RarityStep ==
    /\ gem_pc = "rarity"
    /\ \E skill \in todo :
           /\ skill_rarity_map' =
                  [s \in DOMAIN skill_rarity_map \cup {skill} |->
                      IF s = skill THEN Rarity(SkillCount(corpus, skill), Len(corpus))
                      ELSE skill_rarity_map[s]]
           /\ todo' = todo \ {skill}
    /\ UNCHANGED <<map_corpus, corpus, gem_pc, idx, gem_data, map_seen,
                   featVars, recVars, apiVars, rarVars, rfVars, mentVars, gaVars, scVars>>

\* variant: the loop over the profiles begins while skills are still uncounted
RarityDone_early ==
    /\ gem_pc = "rarity"
    /\ gem_pc' = "analyze"
    /\ idx' = 1
    /\ UNCHANGED <<skill_rarity_map, map_corpus, corpus, todo, gem_data, map_seen,
                   featVars, recVars, apiVars, rarVars, rfVars, mentVars, gaVars, scVars>>

\* _calculate_skill_rarity returns; the loop over the profiles begins
RarityDone ==
    /\ gem_pc = "rarity"
    /\ todo = {}
    /\ gem_pc' = "analyze"
    /\ idx' = 1
    /\ UNCHANGED <<skill_rarity_map, map_corpus, corpus, todo, gem_data, map_seen,
                   featVars, recVars, apiVars, rarVars, rfVars, mentVars, gaVars, scVars>>

\* one iteration of the loop `for idx, profile in profiles_df.iterrows()`
AnalyzeProfile ==
    /\ gem_pc = "analyze"
    /\ idx <= Len(corpus)
    /\ gem_data' = Append(gem_data, analyze_profile(corpus[idx], skill_rarity_map))
    /\ map_seen' = map_seen \cup {skill_rarity_map}
    /\ idx' = idx + 1
    /\ UNCHANGED <<skill_rarity_map, map_corpus, corpus, gem_pc, todo,
                   featVars, recVars, apiVars, rarVars, rfVars, mentVars, gaVars, scVars>>

\* batch_analyze returns result_df
BatchReturn ==
    /\ gem_pc = "analyze"
    /\ idx > Len(corpus)
    /\ gem_pc' = "idle"
    /\ UNCHANGED <<skill_rarity_map, map_corpus, corpus, todo, idx, gem_data, map_seen,
                   featVars, recVars, apiVars, rarVars, rfVars, mentVars, gaVars, scVars>>

NextGem ==
    \/ BatchAnalyze
    \/ AnalyzeProfilesForGems
    \/ RarityStep
    \/ RarityDone
    \/ AnalyzeProfile
    \/ BatchReturn

SpecGem == InitGem /\ [][NextGem]_vars

\* C9: two-phase batch.  While batch_analyze (also when started by
\* analyze_profiles_for_gems) is in its loop over the profiles, no skill is left
\* to be counted, the rarity map is the complete map of the profiles it was
\* computed from, and every analyze_profile call of the batch so far has read
\* that same map.
C9_TwoPhaseBatch ==
    gem_pc = "analyze" =>
        /\ todo = {}
        /\ skill_rarity_map = RarityMapOf(map_corpus)
        /\ map_seen \subseteq {skill_rarity_map}

\* a batch over two or more profiles whose map, of two or more skills, was computed
\* from the batch's own profiles, with at least one profile already analysed
C9_Witness ==
    /\ gem_pc = "analyze"
    /\ map_corpus = corpus
    /\ Len(corpus) >= 2
    /\ Cardinality(DOMAIN skill_rarity_map) >= 2
    /\ Len(gem_data) >= 1
    /\ map_seen = {skill_rarity_map}

\* C10: the rarity statistics follow the corpus.  Every skill_rarity_score that
\* batch_analyze(P) has produced is the score of that profile under the rarity
\* map derived from P alone, whatever the detector was constructed with or has
\* analysed before.
C10_RarityFromBatchCorpus ==
    \A i \in DOMAIN gem_data :
        gem_data[i].skill_rarity_score =
            calculate_skill_rarity_score(corpus[i], RarityMapOf(corpus))

(***************************************************************************)
(* Rarity as a function of frequency: two skills of one corpus, given by   *)
(* their entries in skill_counts and the number of profiles.  A skill that *)
(* a profile lists twice is counted twice, so a count may exceed the       *)
(* number of profiles.                                                     *)
(***************************************************************************)
MaxTotal == 40

RarityInputs ==
    {[total_profiles |-> t, count1 |-> c1, count2 |-> c2] :
        t \in 1..MaxTotal, c1 \in 1..(MaxTotal + 1), c2 \in 1..(MaxTotal + 1)}

InitRarity ==
    /\ rar_in \in {i \in RarityInputs : i.count1 <= i.total_profiles + 1
                                        /\ i.count2 <= i.total_profiles + 1}
    /\ rar_out = <<>>
    /\ FeatIdle /\ RecIdle /\ ApiIdle /\ GemIdle /\ RfIdle /\ MentIdle /\ GaIdle /\ ScIdle

\* the two iterations of the loop of _calculate_skill_rarity for the two skills
CalculateSkillRarity ==
    /\ rar_out = <<>>
    /\ rar_out' = [rarity1 |-> Rarity(rar_in.count1, rar_in.total_profiles),
                   rarity2 |-> Rarity(rar_in.count2, rar_in.total_profiles)]
    /\ UNCHANGED <<rar_in, featVars, recVars, apiVars, gemVars, rfVars, mentVars, gaVars, scVars>>

NextRarity == CalculateSkillRarity

SpecRarity == InitRarity /\ [][NextRarity]_vars

\* C11: rarity is monotonically non-increasing in corpus frequency.  Of two
\* skills of one corpus, the one with the strictly lower frequency
\* (count / number of profiles) gets a rarity at least as high as the other's,
\* and both rarities lie in [10,100].
C11_RarityMonotonic ==
    rar_out # <<>> =>
        /\ RLt(Frac(rar_in.count1, rar_in.total_profiles),
               Frac(rar_in.count2, rar_in.total_profiles))
              => RGe(rar_out.rarity1, rar_out.rarity2)
        /\ RLe(R(10), rar_out.rarity1) /\ RLe(rar_out.rarity1, R(100))
        /\ RLe(R(10), rar_out.rarity2) /\ RLe(rar_out.rarity2, R(100))

\* across the 5% boundary: 1 of 40 profiles (2.5%) against 2 of 40 (5%)
C11_Witness ==
    /\ rar_in = [total_profiles |-> 40, count1 |-> 1, count2 |-> 2]
    /\ rar_out # <<>>
    /\ rar_out.rarity1 = R(95)
    /\ rar_out.rarity2 = R(80)

(***************************************************************************)
(* ConnectionRecommender.evaluate_connection                               *)
(***************************************************************************)
\* variant: only the direction (user, candidate) is looked up
PairsLinking_one_way(pairs, user_id, candidate_id) ==
    LET Links(row) == row.profile_a_id = user_id /\ row.profile_b_id = candidate_id
    IN  SelectSeq(pairs, Links)

\* the rows of pairs_df that link the two ids, in either direction, in table order
PairsLinking(pairs, user_id, candidate_id) ==
    LET Links(row) ==
            \/ (row.profile_a_id = user_id /\ row.profile_b_id = candidate_id)
            \/ (row.profile_a_id = candidate_id /\ row.profile_b_id = user_id)
    IN  SelectSeq(pairs, Links)

InLookup(profiles, id) == \E i \in DOMAIN profiles : profiles[i].profile_id = id

evaluate_connection(pairs, profiles, user_id, candidate_id) ==
    LET linking == PairsLinking(pairs, user_id, candidate_id)
        pair == linking[1]
        candidate == ProfileLookup(profiles, candidate_id)
    IN  IF Len(linking) = 0 THEN [error |-> "Connection pair not found"]
        ELSE IF ~InLookup(profiles, candidate_id) THEN [error |-> "Candidate profile not found"]
        ELSE [compatibility_score |-> pair.compatibility_score,
              recommendation |-> IF pair.compatibility_score >= 70 THEN "CONNECT"
                                 ELSE IF pair.compatibility_score >= 50 THEN "CONSIDER"
                                 ELSE "SKIP",
              roi_metrics |->
                  [job_opportunity |-> Get(pair, "predicted_job_opportunity_score", 0),
                   mentorship_value |-> Get(pair, "predicted_mentorship_value", 0),
                   collaboration_potential |-> Get(pair, "predicted_collaboration_potential", 0),
                   expected_timeframe |-> Get(pair, "roi_timeframe", "unknown")],
              candidate_info |->
                  [name |-> Get(candidate, "name", "Unknown"),
                   role |-> Get(candidate, "current_role", "Unknown"),
                   company |-> Get(candidate, "current_company", "Unknown"),
                   seniority |-> Get(candidate, "seniority_level", "Unknown"),
                   industry |-> Get(candidate, "industry", "Unknown"),
                   years_experience |-> Get(candidate, "years_experience", 0)],
              red_flags |->
                  [has_red_flags |-> Get(candidate, "red_flag_score", 0) > 50,
                   red_flag_score |-> Get(candidate, "red_flag_score", 0),
                   reasons |-> Get(candidate, "red_flag_reasons", "None")],
              hidden_gem |->
                  [is_gem |-> Get(candidate, "gem_score", 0) > 70,
                   gem_score |-> Get(candidate, "gem_score", 0),
                   gem_type |-> Get(candidate, "gem_type", "None")],
              explanation |-> Get(pair, "mutual_benefit_explanation", "")]

\* ---- inputs of evaluate_connection and get_hidden_gems ----
MaxEvalPairs == 2

EvalIdPairs == {<<"p1", "p2">>, <<"p2", "p1">>, <<"p3", "p1">>, <<"p2", "p3">>}

\* pair rows with and without the optional columns
EvalPairRows ==
    { [profile_a_id |-> ip[1], profile_b_id |-> ip[2], compatibility_score |-> 49] :
          ip \in EvalIdPairs }
    \cup
    { [profile_a_id |-> ip[1], profile_b_id |-> ip[2], compatibility_score |-> c,
       predicted_job_opportunity_score |-> 60,
       predicted_mentorship_value |-> 40,
       predicted_collaboration_potential |-> 70,
       roi_timeframe |-> "3-6 months",
       mutual_benefit_explanation |-> "Shared skills"] :
          ip \in EvalIdPairs, c \in {50, 70} }

EvalPairTables == UNION { [1..n -> EvalPairRows] : n \in 0..MaxEvalPairs }

\* profile tables with the gem columns; each table has one set of columns
GemProfileTables ==
    { << [profile_id |-> "p1", name |-> "Ann", red_flag_score |-> 0,
          gem_score |-> 90, gem_type |-> "rising_star", gem_reason |-> "Fast growth"],
         [profile_id |-> "p2", name |-> "Bo", red_flag_score |-> 51,
          gem_score |-> 60, gem_type |-> "None", gem_reason |-> ""],
         [profile_id |-> "p3", name |-> "Cy", red_flag_score |-> 50,
          gem_score |-> 71, gem_type |-> "super_connector", gem_reason |-> "Bridges clusters"] >>,
      << [profile_id |-> "p1", name |-> "Ann", red_flag_score |-> 0,
          gem_score |-> 90, gem_type |-> "rising_star", gem_reason |-> "Fast growth"],
         [profile_id |-> "p2", name |-> "Bo", red_flag_score |-> 80,
          gem_score |-> 70, gem_type |-> "None", gem_reason |-> ""] >> }

EvalUserIds      == {"p1", "p2"}
EvalCandidateIds == {"p2", "p3", "p4"}

(***************************************************************************)
(* Specification of evaluate_connection: a recommender constructed over a  *)
(* pairs table and a profiles table, serving one evaluate_connection call. *)
(***************************************************************************)
InitEval ==
    /\ pairs_df \in EvalPairTables
    /\ profiles_df \in ProfileTables \cup GemProfileTables
    /\ filter_red_flags = TRUE
    /\ red_flag_threshold = DefaultRedFlagThreshold
    /\ rec_call = [called |-> FALSE]
    /\ recommendations = <<>>
    /\ evaluation = <<>>
    /\ FeatIdle /\ ApiIdle /\ GemIdle /\ RarIdle /\ RfIdle /\ MentIdle /\ GaIdle /\ ScIdle

EvaluateConnection ==
    /\ ~rec_call.called
    /\ \E user_id \in EvalUserIds, candidate_id \in EvalCandidateIds :
           /\ rec_call' = [called |-> TRUE, user_id |-> user_id, candidate_id |-> candidate_id]
           /\ evaluation' = evaluate_connection(pairs_df, profiles_df, user_id, candidate_id)
    /\ UNCHANGED <<pairs_df, profiles_df, filter_red_flags, red_flag_threshold,
                   recommendations, featVars, apiVars, gemVars, rarVars, rfVars, mentVars, gaVars, scVars>>

NextEval == EvaluateConnection

SpecEval == InitEval /\ [][NextEval]_vars

\* some row of pairs_df links the two ids of the served call, in either direction
PairPresent ==
    \E i \in DOMAIN pairs_df :
        {pairs_df[i].profile_a_id, pairs_df[i].profile_b_id}
            = {rec_call.user_id, rec_call.candidate_id}

CandidatePresent ==
    \E i \in DOMAIN profiles_df : profiles_df[i].profile_id = rec_call.candidate_id

EvaluationKeys ==
    {"compatibility_score", "recommendation", "roi_metrics", "candidate_info",
     "red_flags", "hidden_gem", "explanation"}

\* C12: evaluate_connection answers an absent pair or candidate with a dict that
\* has an 'error' entry, and every other call with the full evaluation and no
\* 'error' entry.
C12_EvaluateConnectionErrors ==
    rec_call.called =>
        IF PairPresent /\ CandidatePresent
        THEN DOMAIN evaluation = EvaluationKeys
        ELSE "error" \in DOMAIN evaluation

\* the pair is in the table, in the direction (candidate, user), but the candidate
\* has no profile row
C12_Witness ==
    /\ rec_call.called
    /\ rec_call.user_id = "p1" /\ rec_call.candidate_id = "p3"
    /\ PairPresent
    /\ ~CandidatePresent
    /\ evaluation = [error |-> "Candidate profile not found"]

\* ---- predictor failures on the FastAPI endpoints ----
\* the predictor raised while the served request was being scored
PredictorRaised ==
    \/ req.path = "compatibility" /\ req.predicted = Raised
    \/ req.path = "batch_score" /\ \E i \in DOMAIN req.predicted : req.predicted[i] = Raised

\* C13: a predictor failure is surfaced.  When no model is loaded the FastAPI
\* scoring endpoints answer 503, when the model is loaded and a prediction raises
\* (for batch-score: on any item) they answer 500, and in both cases the answer
\* carries neither a compatibility_score nor a result list.
C13_PredictorFailureSurfaced ==
    req.path \in {"compatibility", "batch_score"} =>
        /\ api_model = "none" => resp.status = "503"
        /\ (api_model = "loaded" /\ PredictorRaised) => resp.status = "500"
        /\ (api_model = "none" \/ PredictorRaised) =>
               /\ "compatibility_score" \notin DOMAIN resp
               /\ "results" \notin DOMAIN resp

\* a batch of two whose first item is scored and whose second item fails
C13_Witness ==
    /\ req.path = "batch_score"
    /\ api_model = "loaded"
    /\ Len(req.predicted) = 2
    /\ req.predicted[1] # Raised
    /\ req.predicted[2] = Raised
    /\ resp.status = "500"
    /\ DOMAIN resp = {"status", "detail"}

(***************************************************************************)
(* calculate_features on profiles with optional fields absent              *)
(***************************************************************************)
OptionalFields ==
    {"connections", "years_experience", "skills", "needs", "can_offer", "seniority_level"}

\* full profiles from which fields are removed
BaseProfiles ==
    { [skills |-> {"python", "sql"}, needs |-> {"mentorship"}, can_offer |-> {"funding"},
       connections |-> 800, seniority_level |-> "senior", years_experience |-> 12,
       industry |-> Txt_tech, location |-> Txt_sf_ca, remote_preference |-> "none"],
      [skills |-> {"python"}, needs |-> {"funding"}, can_offer |-> {"mentorship"},
       connections |-> 0, seniority_level |-> "entry", years_experience |-> 0,
       industry |-> Txt_fin, location |-> Txt_nyc_ny, remote_preference |-> "remote"] }

\* the profile without the fields in `absent`
Without(profile, absent) == [k \in (DOMAIN profile) \ absent |-> profile[k]]

PartialProfiles ==
    {Without(p, absent) : p \in BaseProfiles, absent \in SUBSET OptionalFields}

\* the documented default of an optional field
DocumentedDefault(field) ==
    CASE field \in {"connections", "years_experience"} -> 0
      [] field \in {"skills", "needs", "can_offer"} -> {}
      [] field = "seniority_level" -> "entry"

\* the profile with every absent optional field set to its documented default
WithDefaults(profile) ==
    [k \in (DOMAIN profile) \cup OptionalFields |->
        IF k \in DOMAIN profile THEN profile[k] ELSE DocumentedDefault(k)]

InitFeatOpt ==
    /\ profile_a \in PartialProfiles
    /\ profile_b \in PartialProfiles
    /\ features = NoFeatures
    /\ feat_pc = "ready"
    /\ hash_seed = 0
    /\ features_again = NoFeatures
    /\ RecIdle /\ ApiIdle /\ GemIdle /\ RarIdle /\ RfIdle /\ MentIdle /\ GaIdle /\ ScIdle

SpecFeatOpt == InitFeatOpt /\ [][NextFeat]_vars

\* C14: missing-field defaults.  The result of calculate_features on profiles
\* with optional fields absent is the result on the same profiles with those
\* fields set to 0 (connections, years_experience), the empty set (skills,
\* needs, can_offer) and "entry" (seniority_level).
C14_MissingFieldDefaults ==
    feat_pc = "done" =>
        features = calculate_features(WithDefaults(profile_a), WithDefaults(profile_b), hash_seed)

(***************************************************************************)
(* Two calls of calculate_features on the same profiles, by one engine in  *)
(* one interpreter.                                                        *)
(***************************************************************************)
ManySkills == {"python", "sql", "go", "ai", "rust"}
ManyTopics == {"funding", "mentorship", "introductions", "ai"}

ExplanationProfiles ==
    { [skills |-> sk, needs |-> nd, can_offer |-> co, years_experience |-> y,
       connections |-> 800, seniority_level |-> "senior",
       industry |-> Txt_tech, location |-> Txt_sf_ca, remote_preference |-> "none",
       current_role |-> role, current_company |-> "Acme"] :
      sk \in {{"python"}, ManySkills}, nd \in {{}, ManyTopics}, co \in {{}, ManyTopics},
      y \in {0, 5, 15}, role \in {"Engineer", "Founder"} }

InitFeatTwice ==
    /\ profile_a \in ExplanationProfiles
    /\ profile_b \in ExplanationProfiles
    /\ hash_seed \in HashSeeds
    /\ features = NoFeatures
    /\ features_again = NoFeatures
    /\ feat_pc = "ready"
    /\ RecIdle /\ ApiIdle /\ GemIdle /\ RarIdle /\ RfIdle /\ MentIdle /\ GaIdle /\ ScIdle

\* variant: the second call runs in an interpreter that drew the other seed
CalculateFeaturesAgain_reseeded ==
    /\ feat_pc = "done"
    /\ features_again' = calculate_features(profile_a, profile_b, 1 - hash_seed)
    /\ feat_pc' = "again"
    /\ UNCHANGED <<profile_a, profile_b, features, hash_seed,
                   recVars, apiVars, gemVars, rarVars, rfVars, mentVars, gaVars, scVars>>

\* a second call of calculate_features on the same engine and profiles
CalculateFeaturesAgain ==
    /\ feat_pc = "done"
    /\ features_again' = calculate_features(profile_a, profile_b, hash_seed)
    /\ feat_pc' = "again"
    /\ UNCHANGED <<profile_a, profile_b, features, hash_seed,
                   recVars, apiVars, gemVars, rarVars, rfVars, mentVars, gaVars, scVars>>

NextFeatTwice ==
    \/ CalculateFeatures
    \/ CalculateFeaturesAgain

SpecFeatTwice == InitFeatTwice /\ [][NextFeatTwice]_vars

FiveSkillsA == {"python", "sql", "go", "ai", "rust"}
FiveSkillsB == {"java", "scala", "spark", "kafka", "excel"}

SwapProfiles ==
    { [skills |-> sk, needs |-> tp[1], can_offer |-> tp[2], years_experience |-> 5,
       connections |-> c, seniority_level |-> sen,
       industry |-> pl[1], location |-> pl[2], remote_preference |-> "none"] :
      sk \in {{}, FiveSkillsA, FiveSkillsB, {"python", "sql"}, {"python"}},
      tp \in {<<{}, {"funding"}>>, <<{"funding"}, {}>>},
      c \in {0, 5000}, sen \in {"entry", "executive"},
      pl \in {<<Txt_tech, Txt_sf_ca>>, <<Txt_fin, Txt_cary_il>>} }

InitFeatSwap ==
    /\ profile_a \in SwapProfiles
    /\ profile_b \in SwapProfiles
    /\ hash_seed = 0
    /\ features = NoFeatures
    /\ features_again = NoFeatures
    /\ feat_pc = "ready"
    /\ RecIdle /\ ApiIdle /\ GemIdle /\ RarIdle /\ RfIdle /\ MentIdle /\ GaIdle /\ ScIdle

\* calculate_features(B, A) after calculate_features(A, B)
CalculateFeaturesSwapped ==
    /\ feat_pc = "done"
    /\ features_again' = calculate_features(profile_b, profile_a, hash_seed)
    /\ feat_pc' = "swapped"
    /\ UNCHANGED <<profile_a, profile_b, features, hash_seed,
                   recVars, apiVars, gemVars, rarVars, rfVars, mentVars, gaVars, scVars>>

NextFeatSwap ==
    \/ CalculateFeatures
    \/ CalculateFeaturesSwapped

SpecFeatSwap == InitFeatSwap /\ [][NextFeatSwap]_vars

\* C16: skill_match is symmetric.  skill_match_score of (A,B) equals
\* skill_match_score of (B,A), and it is 0 when either skill set is empty or
\* the two sets have no skill in common.
C16_SkillMatchSymmetric ==
    feat_pc = "swapped" =>
        /\ features.skill_match_score = features_again.skill_match_score
        /\ (profile_a.skills = {} \/ profile_b.skills = {}
            \/ profile_a.skills \cap profile_b.skills = {})
               => /\ features.skill_match_score = R(0)
                  /\ features_again.skill_match_score = R(0)

\* two disjoint sets of five skills
C16_Witness ==
    /\ feat_pc = "swapped"
    /\ Cardinality(profile_a.skills) = 5
    /\ Cardinality(profile_b.skills) = 5
    /\ profile_a.skills \cap profile_b.skills = {}
    /\ features.skill_match_score = R(0)
    /\ features_again.skill_match_score = R(0)

(***************************************************************************)
(* ConnectionRecommender.get_hidden_gems                                   *)
(***************************************************************************)
GemColumns == {"gem_score", "gem_type", "gem_reason"}

HasColumn(profiles, column) == \E i \in DOMAIN profiles : column \in DOMAIN profiles[i]

\* variant: a gem_score equal to min_gem_score does not qualify
GemProfileIds_strict(profiles, min_gem_score) ==
    {profiles[i].profile_id : i \in {k \in DOMAIN profiles : profiles[k].gem_score > min_gem_score}}

\* gem_profiles: the ids whose gem_score reaches min_gem_score
GemProfileIds(profiles, min_gem_score) ==
    {profiles[i].profile_id : i \in {k \in DOMAIN profiles : profiles[k].gem_score >= min_gem_score}}

\* the rows of pairs_df that involve user_id, with candidate_id added
GemUserPairs(pairs, user_id) ==
    LET Involves(i) == pairs[i].profile_a_id = user_id \/ pairs[i].profile_b_id = user_id
        WithCandidate(i) ==
            [candidate_id |-> IF pairs[i].profile_a_id = user_id
                              THEN pairs[i].profile_b_id ELSE pairs[i].profile_a_id,
             pair_index |-> i,
             compatibility_score |-> pairs[i].compatibility_score]
        RECURSIVE Gather(_)
        Gather(i) == IF i > Len(pairs) THEN <<>>
                     ELSE (IF Involves(i) THEN <<WithCandidate(i)>> ELSE <<>>) \o Gather(i + 1)
    IN  Gather(1)

\* get_hidden_gems; outcome "KeyError" is the exception of selecting gem columns
\* that profiles_df does not have
get_hidden_gems(pairs, profiles, user_id, top_n, min_gem_score) ==
    LET user_pairs == GemUserPairs(pairs, user_id)
        IsGem(row) == row.candidate_id \in GemProfileIds(profiles, min_gem_score)
        kept == IF HasColumn(profiles, "gem_score") THEN SelectSeq(user_pairs, IsGem)
                ELSE user_pairs
        Merged(row) ==
            LET profile == ProfileLookup(profiles, row.candidate_id)
            IN  [candidate_id |-> row.candidate_id,
                 pair_index |-> row.pair_index,
                 compatibility_score |-> row.compatibility_score,
                 gem_score |-> profile.gem_score,
                 gem_type |-> profile.gem_type,
                 gem_reason |-> profile.gem_reason,
                 ranking_score |-> R(profile.gem_score),
                 candidate_name |-> Get(profile, "name", "Unknown")]
        gems == nlargest([i \in DOMAIN kept |-> Merged(kept[i])], top_n)
    IN  IF user_pairs = <<>> THEN [outcome |-> "returned", rows |-> <<>>]
        ELSE IF \E c \in GemColumns : ~HasColumn(profiles, c)
        THEN [outcome |-> "KeyError", rows |-> <<>>]
        ELSE [outcome |-> "returned",
              rows |-> [i \in DOMAIN gems |->
                           [candidate_id |-> gems[i].candidate_id,
                            pair_index |-> gems[i].pair_index,
                            compatibility_score |-> gems[i].compatibility_score,
                            gem_score |-> gems[i].gem_score,
                            gem_type |-> gems[i].gem_type,
                            gem_reason |-> gems[i].gem_reason,
                            candidate_name |-> gems[i].candidate_name]]]

MinGemScoreChoices == {60, 71}

(***************************************************************************)
(* Specification of get_hidden_gems: a recommender constructed over a      *)
(* pairs table and a profiles table, serving one get_hidden_gems call.     *)
(***************************************************************************)
InitHiddenGems ==
    /\ pairs_df \in EvalPairTables
    /\ profiles_df \in ProfileTables \cup GemProfileTables
    /\ filter_red_flags = TRUE
    /\ red_flag_threshold = DefaultRedFlagThreshold
    /\ rec_call = [called |-> FALSE]
    /\ recommendations = <<>>
    /\ evaluation = <<>>
    /\ FeatIdle /\ ApiIdle /\ GemIdle /\ RarIdle /\ RfIdle /\ MentIdle /\ GaIdle /\ ScIdle

GetHiddenGems ==
    /\ ~rec_call.called
    /\ \E user_id \in EvalUserIds, top_n \in 1..MaxTopN, min_gem_score \in MinGemScoreChoices :
           LET result == get_hidden_gems(pairs_df, profiles_df, user_id, top_n, min_gem_score)
           IN  /\ rec_call' = [called |-> TRUE, user_id |-> user_id, top_n |-> top_n,
                               min_gem_score |-> min_gem_score, outcome |-> result.outcome]
               /\ recommendations' = result.rows
    /\ UNCHANGED <<pairs_df, profiles_df, filter_red_flags, red_flag_threshold,
                   evaluation, featVars, apiVars, gemVars, rarVars, rfVars, mentVars, gaVars, scVars>>

NextHiddenGems == GetHiddenGems

SpecHiddenGems == InitHiddenGems /\ [][NextHiddenGems]_vars

\* gem_score of a profile id in profiles_df
GemScoreOf(id) == ProfileLookup(profiles_df, id).gem_score

\* the rows of pairs_df whose candidate, for the user of the served call, is a
\* profile with gem_score >= min_gem_score
GemPairs ==
    {i \in DOMAIN pairs_df :
        /\ InvolvesUser(i)
        /\ InLookup(profiles_df, CandidateOf(i))
        /\ GemScoreOf(CandidateOf(i)) >= rec_call.min_gem_score}

\* C17: get_hidden_gems returns pairs of the user whose candidate has
\* gem_score >= min_gem_score, whatever their compatibility, in descending
\* gem_score order, at most top_n of them: the top_n best when there are more,
\* all of them otherwise.
C17_HiddenGems ==
    (rec_call.called /\ rec_call.outcome = "returned") =>
        LET out == recommendations
        IN  /\ Len(out) <= rec_call.top_n
            /\ \A k \in DOMAIN out :
                   /\ out[k].pair_index \in GemPairs
                   /\ out[k].candidate_id = CandidateOf(out[k].pair_index)
                   /\ out[k].gem_score = GemScoreOf(out[k].candidate_id)
                   /\ out[k].gem_score >= rec_call.min_gem_score
            /\ \A k, l \in DOMAIN out : k < l => out[k].gem_score >= out[l].gem_score
            /\ Len(out) = IF Cardinality(GemPairs) < rec_call.top_n
                          THEN Cardinality(GemPairs) ELSE rec_call.top_n
            /\ \A i \in GemPairs :
                   (\A k \in DOMAIN out : out[k].pair_index # i)
                       => \A k \in DOMAIN out : out[k].gem_score >= GemScoreOf(CandidateOf(i))

\* two gems returned in descending order, the second exactly at min_gem_score and
\* from a pair whose compatibility is below 50
C17_Witness ==
    /\ rec_call.called
    /\ rec_call.outcome = "returned"
    /\ rec_call.min_gem_score = 60
    /\ Len(recommendations) = 2
    /\ recommendations[1].gem_score = 71
    /\ recommendations[2].gem_score = 60
    /\ recommendations[2].compatibility_score = 49

(***************************************************************************)
(* RedFlagsDetector                                                        *)
(***************************************************************************)
\* self.thresholds
thresholds ==
    [connection_collector_min |-> 5000,
     job_hopper_months |-> 6,
     min_experience_entries |-> 2,
     min_skills |-> 5,
     ghost_profile_skill_threshold |-> 3]

vague_titles ==
    << <<"p", "r", "o", "f", "e", "s", "s", "i", "o", "n", "a", "l">>,
       <<"c", "o", "n", "s", "u", "l", "t", "a", "n", "t">>,
       <<"f", "r", "e", "e", "l", "a", "n", "c", "e", "r">>,
       <<"e", "n", "t", "r", "e", "p", "r", "e", "n", "e", "u", "r">>,
       <<"e", "x", "p", "e", "r", "t">>,
       <<"s", "p", "e", "c", "i", "a", "l", "i", "s", "t">>,
       <<"s", "t", "r", "a", "t", "e", "g", "i", "s", "t">>,
       <<"a", "d", "v", "i", "s", "o", "r">> >>

spam_keywords ==
    << <<"m", "l", "m">>,
       <<"m", "u", "l", "t", "i", "-", "l", "e", "v", "e", "l">>,
       <<"n", "e", "t", "w", "o", "r", "k", " ", "m", "a", "r", "k", "e", "t", "i", "n", "g">>,
       <<"b", "e", " ", "y", "o", "u", "r", " ", "o", "w", "n", " ", "b", "o", "s", "s">>,
       <<"f", "i", "n", "a", "n", "c", "i", "a", "l", " ", "f", "r", "e", "e", "d", "o", "m">>,
       <<"u", "n", "l", "i", "m", "i", "t", "e", "d", " ", "i", "n", "c", "o", "m", "e">>,
       <<"w", "o", "r", "k", " ", "f", "r", "o", "m", " ", "h", "o", "m", "e", " ", "o", "p", "p", "o", "r", "t", "u", "n", "i", "t", "y">>,
       <<"c", "r", "y", "p", "t", "o", " ", "t", "r", "a", "d", "i", "n", "g">>,
       <<"f", "o", "r", "e", "x", " ", "s", "i", "g", "n", "a", "l", "s">>,
       <<"i", "n", "s", "u", "r", "a", "n", "c", "e", " ", "a", "g", "e", "n", "t", " ", "r", "e", "c", "r", "u", "i", "t", "i", "n", "g">> >>

\* (profile.get(field) or "").lower()
LowerText(profile, field) == Lower(Get(profile, field, <<>>))

\* variant: the title has to be one of the vague titles, not to contain one
IsVagueTitle_exact(title) == \E i \in DOMAIN vague_titles : vague_titles[i] = title

\* any(vague in title for vague in self.vague_titles)
IsVagueTitle(title) == \E i \in DOMAIN vague_titles : IsSubstr(vague_titles[i], title)

is_connection_collector(profile) ==
    LET connections == Get(profile, "connections", 0)
        title == LowerText(profile, "current_role")
    IN  IF connections < thresholds.connection_collector_min THEN FALSE
        ELSE connections >= thresholds.connection_collector_min /\ IsVagueTitle(title)

\* variant: every listed job is looked at, not the first five
is_job_hopper_all_jobs(profile) ==
    LET experience == Get(profile, "experience", <<>>)
        recent_jobs == Cardinality({i \in DOMAIN experience :
                           Get(experience[i], "duration_months", 12) < thresholds.job_hopper_months})
    IN  IF Len(experience) < 3 THEN FALSE ELSE recent_jobs >= 3

is_job_hopper(profile) ==
    LET experience == Get(profile, "experience", <<>>)
        looked_at == Prefix(experience, 5)
        recent_jobs == Cardinality({i \in DOMAIN looked_at :
                           Get(looked_at[i], "duration_months", 12) < thresholds.job_hopper_months})
    IN  IF Len(experience) < 3 THEN FALSE ELSE recent_jobs >= 3

\* variant: two signals are enough
is_ghost_profile_two(profile) ==
    LET skills == Get(profile, "skills", <<>>)
        title == LowerText(profile, "current_role")
        about == Get(profile, "about", <<>>)
        experience == Get(profile, "experience", <<>>)
        ghost_signals ==
            (IF Len(skills) < thresholds.ghost_profile_skill_threshold THEN 1 ELSE 0)
            + (IF IsVagueTitle(title) /\ Len(WordList(title)) <= 2 THEN 1 ELSE 0)
            + (IF Len(about) < 50 THEN 1 ELSE 0)
            + (IF Len(experience) < thresholds.min_experience_entries THEN 1 ELSE 0)
    IN  ghost_signals >= 2

is_ghost_profile(profile) ==
    LET skills == Get(profile, "skills", <<>>)
        title == LowerText(profile, "current_role")
        about == Get(profile, "about", <<>>)
        experience == Get(profile, "experience", <<>>)
        ghost_signals ==
            (IF Len(skills) < thresholds.ghost_profile_skill_threshold THEN 1 ELSE 0)
            + (IF IsVagueTitle(title) /\ Len(WordList(title)) <= 2 THEN 1 ELSE 0)
            + (IF Len(about) < 50 THEN 1 ELSE 0)
            + (IF Len(experience) < thresholds.min_experience_entries THEN 1 ELSE 0)
    IN  ghost_signals >= 3

calculate_engagement_quality(profile) ==
    LET skills == Len(Get(profile, "skills", <<>>))
        experience == Len(Get(profile, "experience", <<>>))
        about == Len(Get(profile, "about", <<>>))
        education == Len(Get(profile, "education", <<>>))
        connections == Get(profile, "connections", 0)
        score == 50
            + (IF skills >= 15 THEN 15 ELSE IF skills >= 10 THEN 10
               ELSE IF skills < 5 THEN -15 ELSE 0)
            + (IF experience >= 4 THEN 15 ELSE IF experience <= 1 THEN -15 ELSE 0)
            + (IF about > 200 THEN 10 ELSE IF about < 50 THEN -10 ELSE 0)
            + (IF education >= 1 THEN 10 ELSE 0)
            + (IF 500 <= connections /\ connections <= 3000 THEN 10
               ELSE IF connections > 5000 THEN -10
               ELSE IF connections < 50 THEN -10 ELSE 0)
    IN  Max(0, Min(100, score))

\* the literals searched for by _calculate_spam_likelihood
Txt_dm_me       == <<"d", "m", " ", "m", "e">>
Txt_message_me  == <<"m", "e", "s", "s", "a", "g", "e", " ", "m", "e">>
Txt_opportunity == <<"o", "p", "p", "o", "r", "t", "u", "n", "i", "t", "y">>
Txt_financial   == <<"f", "i", "n", "a", "n", "c", "i", "a", "l">>
Txt_recruiter   == <<"r", "e", "c", "r", "u", "i", "t", "e", "r">>
Txt_insurance   == <<"i", "n", "s", "u", "r", "a", "n", "c", "e">>

calculate_spam_likelihood(profile) ==
    LET headline == LowerText(profile, "headline")
        about == LowerText(profile, "about")
        title == LowerText(profile, "current_role")
        combined_text == headline \o <<" ">> \o about \o <<" ">> \o title
        spam_count == Cardinality({i \in DOMAIN spam_keywords :
                                      IsSubstr(spam_keywords[i], combined_text)})
        connections == Get(profile, "connections", 0)
        score == spam_count * 20
            + (IF IsSubstr(Txt_dm_me, combined_text) \/ IsSubstr(Txt_message_me, combined_text)
               THEN 15 ELSE 0)
            + (IF IsSubstr(Txt_opportunity, combined_text) /\ IsSubstr(Txt_financial, combined_text)
               THEN 20 ELSE 0)
            + (IF IsSubstr(Txt_recruiter, title) /\ IsSubstr(Txt_insurance, combined_text)
               THEN 15 ELSE 0)
            + (IF connections > 8000 /\ IsVagueTitle(title) THEN 25 ELSE 0)
    IN  Min(100, score)

\* variant: the final min(100, score) is dropped
calculate_overall_red_flag_score_unclamped(red_flags) ==
    RAdd(R((IF red_flags.is_connection_collector THEN 25 ELSE 0)
           + (IF red_flags.is_job_hopper THEN 20 ELSE 0)
           + (IF red_flags.is_ghost_profile THEN 30 ELSE 0)),
         RAdd(RMul(R(100 - red_flags.engagement_quality_score), Frac(15, 100)),
              RMul(R(red_flags.spam_likelihood), Frac(20, 100))))

calculate_overall_red_flag_score(red_flags) ==
    LET score == RAdd(R((IF red_flags.is_connection_collector THEN 25 ELSE 0)
                        + (IF red_flags.is_job_hopper THEN 20 ELSE 0)
                        + (IF red_flags.is_ghost_profile THEN 30 ELSE 0)),
                      RAdd(RMul(R(100 - red_flags.engagement_quality_score), Frac(15, 100)),
                           RMul(R(red_flags.spam_likelihood), Frac(20, 100))))
    IN  RMin(R(100), score)

\* _generate_red_flag_explanation; the string is kept as the sequence of its reasons
generate_red_flag_explanation(red_flags, profile) ==
    LET reasons ==
            (IF red_flags.is_connection_collector
             THEN <<[reason |-> "Connection collector",
                     connections |-> Get(profile, "connections", 0)]>> ELSE <<>>)
            \o (IF red_flags.is_job_hopper THEN <<[reason |-> "Job hopper"]>> ELSE <<>>)
            \o (IF red_flags.is_ghost_profile THEN <<[reason |-> "Ghost profile"]>> ELSE <<>>)
            \o (IF red_flags.engagement_quality_score < 40
                THEN <<[reason |-> "Low engagement quality",
                        engagement |-> red_flags.engagement_quality_score]>> ELSE <<>>)
            \o (IF red_flags.spam_likelihood > 30
                THEN <<[reason |-> "Possible spam/MLM",
                        spam |-> red_flags.spam_likelihood]>> ELSE <<>>)
    IN  IF reasons = <<>> THEN <<[reason |-> "No significant red flags"]>> ELSE reasons

analyze_red_flags(profile) ==
    LET flags == [is_connection_collector |-> is_connection_collector(profile),
                  is_job_hopper |-> is_job_hopper(profile),
                  is_ghost_profile |-> is_ghost_profile(profile),
                  engagement_quality_score |-> calculate_engagement_quality(profile),
                  spam_likelihood |-> calculate_spam_likelihood(profile)]
    IN  [is_connection_collector |-> flags.is_connection_collector,
         is_job_hopper |-> flags.is_job_hopper,
         is_ghost_profile |-> flags.is_ghost_profile,
         engagement_quality_score |-> flags.engagement_quality_score,
         spam_likelihood |-> flags.spam_likelihood,
         red_flag_score |-> calculate_overall_red_flag_score(flags),
         red_flag_reasons |-> generate_red_flag_explanation(flags, profile)]

\* ---- inputs of the red flags detector ----
MaxJobs == 6

Txt_Consultant == <<"C", "o", "n", "s", "u", "l", "t", "a", "n", "t">>
Txt_Engineer   == <<"S", "o", "f", "t", "w", "a", "r", "e", " ", "E", "n", "g", "i", "n", "e", "e", "r">>
Txt_Advisor    == <<"S", "E", "N", "I", "O", "R", " ", "S", "T", "R", "A", "T", "E", "G", "I", "C", " ", "A", "D", "V", "I", "S", "O", "R">>
Txt_Recruiter  == <<"I", "n", "s", "u", "r", "a", "n", "c", "e", " ", "R", "e", "c", "r", "u", "i", "t", "e", "r">>
Txt_Headline   == <<"F", "i", "n", "a", "n", "c", "i", "a", "l", " ", "f", "r", "e", "e", "d", "o", "m", " ", "o", "p", "p", "o", "r", "t", "u", "n", "i", "t", "y", " ", "-", " ", "D", "M", " ", "m", "e">>

\* a text of n characters without any of the searched words
Filler(n) == [i \in 1..n |-> "x"]

\* a list of n skills
SkillList(n) == [i \in 1..n |-> "skill"]

\* an experience entry: short (5 months), exactly 6 months, or without duration_months
JobKinds == {[title |-> "job", duration_months |-> 5],
             [title |-> "job", duration_months |-> 6],
             [title |-> "job"]}

JobLists == UNION {[1..n -> JobKinds] : n \in 0..MaxJobs}

LongJob == [title |-> "job", duration_months |-> 24]

\* profiles that differ in their experience entries only
JobProfiles ==
    { [connections |-> 800, current_role |-> Txt_Engineer, skills |-> SkillList(5),
       about |-> Filler(50), education |-> <<"BSc">>, experience |-> jobs] :
      jobs \in JobLists }

\* profiles that differ in everything else, with and without a current_role
ShapeProfiles ==
    { [connections |-> c, current_role |-> role, skills |-> SkillList(k),
       about |-> Filler(a), education |-> <<"BSc">>, experience |-> jobs] :
      c \in {0, 4999, 5000, 6000, 9000},
      role \in {Txt_Consultant, Txt_Engineer, Txt_Advisor, Txt_Recruiter},
      k \in {0, 2, 3, 15}, a \in {0, 49, 50, 201},
      jobs \in {<<>>, <<LongJob>>, <<LongJob, LongJob>>} }
    \cup
    { [connections |-> c, skills |-> SkillList(k), about |-> Filler(a),
       headline |-> Txt_Headline, experience |-> jobs] :
      c \in {0, 6000}, k \in {0, 3}, a \in {0, 50},
      jobs \in {<<>>, <<LongJob, LongJob>>} }

ShortJob == [title |-> "job", duration_months |-> 5]

\* profiles at the ends of the scales: every flag raised with spam wording, and a
\* complete, well-connected profile
ExtremeProfiles ==
    { [connections |-> 9000, current_role |-> Txt_Consultant, skills |-> <<>>,
       about |-> <<>>, headline |-> Txt_Headline,
       experience |-> <<ShortJob, ShortJob, ShortJob>>],
      [connections |-> 9000, current_role |-> Txt_Recruiter, skills |-> SkillList(2),
       about |-> Txt_Headline, headline |-> Txt_Headline,
       experience |-> <<ShortJob, ShortJob, ShortJob, LongJob>>],
      [connections |-> 800, current_role |-> Txt_Engineer, skills |-> SkillList(15),
       about |-> Filler(201), education |-> <<"BSc">>,
       experience |-> <<LongJob, LongJob, LongJob, LongJob>>],
      [connections |-> 800, current_role |-> Txt_Engineer, skills |-> SkillList(10),
       about |-> Filler(201), experience |-> <<LongJob, LongJob>>] }

(***************************************************************************)
(* Specification of the red flags detector: one analyze_profile call.      *)
(***************************************************************************)
InitRedFlags ==
    /\ rf_profile \in JobProfiles \cup ShapeProfiles \cup ExtremeProfiles
    /\ rf_flags = <<>>
    /\ rf_pc = "ready"
    /\ FeatIdle /\ RecIdle /\ ApiIdle /\ GemIdle /\ RarIdle /\ MentIdle /\ GaIdle /\ ScIdle

\* RedFlagsDetector.analyze_profile
AnalyzeRedFlags ==
    /\ rf_pc = "ready"
    /\ rf_flags' = analyze_red_flags(rf_profile)
    /\ rf_pc' = "done"
    /\ UNCHANGED <<rf_profile, featVars, recVars, apiVars, gemVars, rarVars, mentVars, gaVars, scVars>>

NextRedFlags == AnalyzeRedFlags

SpecRedFlags == InitRedFlags /\ [][NextRedFlags]_vars

\* ---- vocabulary of the red flag claims ----
ProfileTitle == Lower(Get(rf_profile, "current_role", <<>>))

\* the title contains a word of the vague-title lexicon, whatever the case
TitleIsVague ==
    \E i \in DOMAIN vague_titles :
        \E k \in 0..(Len(ProfileTitle) - Len(vague_titles[i])) :
            \A j \in 1..Len(vague_titles[i]) : ProfileTitle[k + j] = vague_titles[i][j]

\* number of space-separated words of the title
TitleWordCount ==
    Cardinality({i \in DOMAIN ProfileTitle :
                    ProfileTitle[i] # " " /\ (i = 1 \/ ProfileTitle[i - 1] = " ")})

\* C18: is_connection_collector is true exactly when connections >= 5000 and
\* the current role title contains a word of the vague-title lexicon,
\* case-insensitively.
C18_ConnectionCollector ==
    rf_pc = "done" =>
        (rf_flags.is_connection_collector
            <=> (Get(rf_profile, "connections", 0) >= 5000 /\ TitleIsVague))

\* 6000 connections and the title "Consultant"
C18_Witness ==
    /\ rf_pc = "done"
    /\ rf_profile.connections = 6000
    /\ "current_role" \in DOMAIN rf_profile
    /\ rf_profile.current_role = Txt_Consultant
    /\ rf_flags.is_connection_collector

\* the four ghost signals of the analysed profile
GhostSignals ==
    { sig \in {"skills", "title", "about", "experience"} :
        CASE sig = "skills" -> Len(Get(rf_profile, "skills", <<>>)) < 3
          [] sig = "title" -> TitleIsVague /\ TitleWordCount <= 2
          [] sig = "about" -> Len(Get(rf_profile, "about", <<>>)) < 50
          [] sig = "experience" -> Len(Get(rf_profile, "experience", <<>>)) < 2 }

\* C19: is_ghost_profile is true exactly when at least 3 of the 4 signals hold:
\* fewer than 3 skills, a vague title of at most two words, an about section
\* shorter than 50 characters, fewer than 2 experience entries.
C19_GhostProfile ==
    rf_pc = "done" => (rf_flags.is_ghost_profile <=> Cardinality(GhostSignals) >= 3)

\* empty about, no skills, no experience, and a title that is not vague
C19_Witness ==
    /\ rf_pc = "done"
    /\ rf_profile.about = <<>>
    /\ rf_profile.skills = <<>>
    /\ rf_profile.experience = <<>>
    /\ "current_role" \in DOMAIN rf_profile
    /\ rf_profile.current_role = Txt_Engineer
    /\ GhostSignals = {"skills", "about", "experience"}
    /\ rf_flags.is_ghost_profile

\* the entries among the first five that have a duration_months below 6
ShortRecentJobs ==
    LET experience == Get(rf_profile, "experience", <<>>)
    IN  {i \in DOMAIN experience :
            /\ i <= 5
            /\ "duration_months" \in DOMAIN experience[i]
            /\ experience[i].duration_months < 6}

C21_BatchParallelList ==
    (req.path = "batch_score" /\ resp.status = "200") =>
        /\ Len(resp.results) = Len(req.pairs)
        /\ \A i \in DOMAIN req.pairs :
               /\ resp.results[i].pair_id = req.pairs[i].pair_id
               /\ resp.results[i].compatibility_score
                      = RoundTo(RMax(R(0), RMin(R(100), req.predicted[i].value)), 100)

\* two items with different pair ids and different scores
C21_Witness ==
    /\ req.path = "batch_score"
    /\ resp.status = "200"
    /\ Len(req.pairs) = 2
    /\ req.pairs[1].pair_id = "pair_002"
    /\ req.pairs[2].pair_id = "pair_001"
    /\ resp.results[1].pair_id = "pair_002"
    /\ resp.results[1].compatibility_score = R(100)
    /\ resp.results[2].pair_id = "pair_001"
    /\ resp.results[2].compatibility_score = Frac(593, 10)

\* 100 * (25*collector + 20*hopper + 30*ghost + 0.15*(100 - engagement) + 0.20*spam)
\* of the analysed profile, in integers
RawRedFlag100 ==
    (IF rf_flags.is_connection_collector THEN 2500 ELSE 0)
    + (IF rf_flags.is_job_hopper THEN 2000 ELSE 0)
    + (IF rf_flags.is_ghost_profile THEN 3000 ELSE 0)
    + 15 * (100 - rf_flags.engagement_quality_score)
    + 20 * rf_flags.spam_likelihood

\* C22: red_flag_score is min(100, 25*is_connection_collector + 20*is_job_hopper
\* + 30*is_ghost_profile + 0.15*(100 - engagement_quality_score)
\* + 0.20*spam_likelihood); engagement_quality_score, spam_likelihood and
\* red_flag_score are within [0,100].
C22_RedFlagScore ==
    rf_pc = "done" =>
        /\ rf_flags.red_flag_score
               = Frac(IF RawRedFlag100 > 10000 THEN 10000 ELSE RawRedFlag100, 100)
        /\ 0 <= rf_flags.engagement_quality_score /\ rf_flags.engagement_quality_score <= 100
        /\ 0 <= rf_flags.spam_likelihood /\ rf_flags.spam_likelihood <= 100
        /\ InRange(rf_flags.red_flag_score)

\* all three flags raised and a weighted sum above 100, returned as 100
C22_Witness ==
    /\ rf_pc = "done"
    /\ rf_flags.is_connection_collector
    /\ rf_flags.is_job_hopper
    /\ rf_flags.is_ghost_profile
    /\ RawRedFlag100 > 10000
    /\ rf_flags.red_flag_score = R(100)

(***************************************************************************)
(* Mentorship component of the compatibility score, as computed by the     *)
(* feature-engineering script, the prediction script and the model API.    *)
(***************************************************************************)
\* RELATED_ROLES of 2_feature_engineering.py and 4_predict.py
RELATED_ROLES ==
    [data_science     |-> {"data_analytics", "data_engineering", "software_dev", "product"},
     data_analytics   |-> {"data_science", "data_engineering", "product"},
     data_engineering |-> {"data_science", "data_analytics", "software_dev"},
     software_dev     |-> {"data_engineering", "data_science", "product"},
     product          |-> {"data_analytics", "software_dev", "design", "data_science"},
     design           |-> {"product", "software_dev"},
     executive        |-> {"product", "data_science", "software_dev"},
     student          |-> {"data_science", "software_dev", "data_analytics", "data_engineering"},
     other            |-> {}]

\* CompatibilityCalculator._mentorship_score
mentorship_score(user, target) ==
    LET exp_gap == Get(target, "years_experience", 0) - Get(user, "years_experience", 0)
        base_score == IF 3 <= exp_gap /\ exp_gap <= 10 THEN 100
                      ELSE IF exp_gap > 10 THEN 70
                      ELSE IF exp_gap > 0 THEN 60
                      ELSE 20
        user_role == Get(user, "job_category", "other")
        target_role == Get(target, "job_category", "other")
        related == IF user_role \in DOMAIN RELATED_ROLES THEN RELATED_ROLES[user_role] ELSE {}
    IN  IF user_role = target_role THEN Min(base_score + 20, 100)
        ELSE IF target_role \in related THEN Min(base_score + 10, 100)
        ELSE base_score

\* calculate_component_scores of 4_predict.py: the mentorship component
calculate_component_scores(user, target) ==
    LET exp_gap == Get(target, "years_experience", 0) - Get(user, "years_experience", 0)
        mentorship == IF 3 <= exp_gap /\ exp_gap <= 10 THEN 100
                      ELSE IF exp_gap > 10 THEN 70
                      ELSE IF exp_gap > 0 THEN 60
                      ELSE 20
        user_role == Get(user, "job_category", "other")
        target_role == Get(target, "job_category", "other")
        related == IF user_role \in DOMAIN RELATED_ROLES THEN RELATED_ROLES[user_role] ELSE {}
    IN  [mentorship |-> IF user_role = target_role THEN Min(mentorship + 20, 100)
                        ELSE IF target_role \in related THEN Min(mentorship + 10, 100)
                        ELSE mentorship]

\* calculate_scores of model-api/app.py: the mentorship component
calculate_scores(user, target) ==
    LET exp_gap == Get(target, "years_experience", 0) - Get(user, "years_experience", 0)
    IN  [mentorship_score |-> IF 3 <= exp_gap /\ exp_gap <= 10 THEN 100
                              ELSE IF exp_gap > 10 THEN 70
                              ELSE IF exp_gap > 0 THEN 60
                              ELSE 20]

\* the mentorship score of each implementation for one ordered pair
MentorshipScores(user, target) ==
    [feature_engineering |-> mentorship_score(user, target),
     predict             |-> calculate_component_scores(user, target).mentorship,
     model_api           |-> calculate_scores(user, target).mentorship_score]

\* ---- inputs ----
MentorYears == {1, 2, 5, 12, 13}
MentorRoles == {"data_science", "data_analytics", "design", "executive", "other"}

MentorProfiles ==
    {[years_experience |-> y, job_category |-> r] : y \in MentorYears, r \in MentorRoles}
    \cup {[job_category |-> r] : r \in MentorRoles}
    \cup {[years_experience |-> y] : y \in MentorYears}

InitMentor ==
    /\ m_user \in MentorProfiles
    /\ m_target \in MentorProfiles
    /\ m_scores = <<>>
    /\ m_pc = "ready"
    /\ FeatIdle /\ RecIdle /\ ApiIdle /\ GemIdle /\ RarIdle /\ RfIdle /\ GaIdle /\ ScIdle

\* the three implementations score the pair (user, target)
CalculateMentorship ==
    /\ m_pc = "ready"
    /\ m_scores' = [forward |-> MentorshipScores(m_user, m_target)]
    /\ m_pc' = "done"
    /\ UNCHANGED <<m_user, m_target, featVars, recVars, apiVars, gemVars, rarVars, rfVars,
                   gaVars, scVars>>

\* the three implementations score the pair (target, user)
CalculateMentorshipSwapped ==
    /\ m_pc = "done"
    /\ m_scores' = [forward |-> m_scores.forward,
                    reverse |-> MentorshipScores(m_target, m_user)]
    /\ m_pc' = "swapped"
    /\ UNCHANGED <<m_user, m_target, featVars, recVars, apiVars, gemVars, rarVars, rfVars,
                   gaVars, scVars>>

NextMentor == CalculateMentorship \/ CalculateMentorshipSwapped

SpecMentor == InitMentor /\ [][NextMentor]_vars

\* ---- vocabulary of the mentorship claim ----
MentorGap == Get(m_target, "years_experience", 0) - Get(m_user, "years_experience", 0)

MentorBand(gap) ==
    IF 3 <= gap /\ gap <= 10 THEN 100
    ELSE IF gap > 10 THEN 70
    ELSE IF gap > 0 THEN 60
    ELSE 20

SameRoleFamily == Get(m_user, "job_category", "other") = Get(m_target, "job_category", "other")

AdjacentRoleFamily ==
    /\ ~SameRoleFamily
    /\ Get(m_user, "job_category", "other") \in DOMAIN RELATED_ROLES
    /\ Get(m_target, "job_category", "other") \in RELATED_ROLES[Get(m_user, "job_category", "other")]

DocumentedMentorship ==
    LET raised == MentorBand(MentorGap) + (IF SameRoleFamily THEN 20
                                           ELSE IF AdjacentRoleFamily THEN 10 ELSE 0)
    IN  IF raised > 100 THEN 100 ELSE raised

Implementations == {"feature_engineering", "predict", "model_api"}

\* C23: mentorship_potential is banded on gap = target_exp - user_exp (3..10 gives
\* 100, above 10 gives 70, 0 < gap < 3 gives 60, gap <= 0 gives 20), raised by 20 for
\* the same role family or by 10 for an adjacent one, never above 100, in each of the
\* three implementations; swapping user and target with a non-zero gap changes it.
C23_MentorshipPotential ==
    /\ m_pc \in {"done", "swapped"} =>
           \A impl \in Implementations :
               /\ m_scores.forward[impl] = DocumentedMentorship
               /\ m_scores.forward[impl] <= 100
    /\ (m_pc = "swapped" /\ MentorGap # 0) =>
           \A impl \in Implementations : m_scores.forward[impl] # m_scores.reverse[impl]

(***************************************************************************)
(* Specification of HiddenGemsDetector.analyze_profile: one call on one    *)
(* profile, by a detector built without or with a dataset.                 *)
(***************************************************************************)
Txt_Google_Cloud == <<"G", "o", "o", "g", "l", "e", " ", "C", "l", "o", "u", "d">>
Txt_Technology   == <<"I", "n", "f", "o", "r", "m", "a", "t", "i", "o", "n", " ", "T", "e", "c", "h", "n", "o", "l", "o", "g", "y">>

TwelveSkills ==
    {"Machine Learning", "Deep Learning", "AI", "Python", "SQL", "Excel", "Go", "Rust",
     "Figma", "Design", "Strategy", "Growth"}

GaSkillSets == {{}, {"SQL"}, {"AI", "Machine Learning"}, TwelveSkills}

\* a detector without a dataset, and one whose dataset made three skills rare
GaRarityMaps ==
    { <<>>,
      [skill \in {"AI", "Machine Learning", "Deep Learning", "SQL"} |->
          IF skill = "SQL" THEN R(15) ELSE IF skill = "AI" THEN R(98) ELSE R(80)] }

GaProfiles ==
    { [years_experience |-> y, connections |-> c, skills |-> sk, seniority_level |-> sen,
       education |-> edu, current_company |-> pl[1], industry |-> pl[2]] :
      y \in {0, 3, 6, 12}, c \in {0, 250, 800, 2000, 6000}, sk \in GaSkillSets,
      sen \in {"mid", "senior", "executive"}, edu \in {<<>>, <<"BSc">>},
      pl \in {<<<<>>, <<>>>>, <<Txt_Google_Cloud, Txt_Technology>>} }
    \cup {[skills |-> sk] : sk \in GaSkillSets}

InitAnalyze ==
    /\ ga_profile \in GaProfiles
    /\ ga_map \in GaRarityMaps
    /\ ga_result = <<>>
    /\ ga_pc = "ready"
    /\ FeatIdle /\ RecIdle /\ ApiIdle /\ GemIdle /\ RarIdle /\ RfIdle /\ MentIdle /\ ScIdle

\* HiddenGemsDetector.analyze_profile
AnalyzeOneProfile ==
    /\ ga_pc = "ready"
    /\ ga_result' = analyze_profile(ga_profile, ga_map)
    /\ ga_pc' = "done"
    /\ UNCHANGED <<ga_profile, ga_map, featVars, recVars, apiVars, gemVars, rarVars, rfVars,
                   mentVars, scVars>>

NextAnalyze == AnalyzeOneProfile

SpecAnalyze == InitAnalyze /\ [][NextAnalyze]_vars

\* ---- vocabulary of the hidden-gem claims ----
Components ==
    {ga_result.undervalued_score, ga_result.rising_star_score,
     ga_result.super_connector_score, ga_result.skill_rarity_score}

LargestComponent == CHOOSE x \in Components : \A y \in Components : RLe(y, x)

\* the component a gem_type value names
NamedComponent(gem_type) ==
    IF gem_type = "Undervalued" THEN ga_result.undervalued_score
    ELSE IF gem_type = "Rising Star" THEN ga_result.rising_star_score
    ELSE IF gem_type = "Super Connector" THEN ga_result.super_connector_score
    ELSE ga_result.skill_rarity_score

GemTypeNames == {"Undervalued", "Rising Star", "Super Connector", "Rare Skills"}

\* 100 * (0.30*undervalued + 0.25*rising_star + 0.25*super_connector + 0.20*skill_rarity)
WeightedGem100 ==
    RAdd(RAdd(RMul(R(30), ga_result.undervalued_score),
              RMul(R(25), ga_result.rising_star_score)),
         RAdd(RMul(R(25), ga_result.super_connector_score),
              RMul(R(20), ga_result.skill_rarity_score)))

\* C24: gem_type names a component whose score is the maximum of the four component
\* scores and is "none" exactly when that maximum is below 40; gem_score is
\* min(100, 0.30*undervalued + 0.25*rising_star + 0.25*super_connector
\* + 0.20*skill_rarity).
C24_GemTypeAndScore ==
    ga_pc = "done" =>
        /\ ga_result.gem_type = "none" <=> RLt(LargestComponent, R(40))
        /\ ga_result.gem_type # "none" =>
               /\ ga_result.gem_type \in GemTypeNames
               /\ NamedComponent(ga_result.gem_type) = LargestComponent
        /\ ga_result.gem_score
               = (IF RGt(WeightedGem100, R(10000)) THEN R(100)
                  ELSE RMul(WeightedGem100, Frac(1, 100)))

\* a profile whose largest component is exactly 40 and is named by gem_type
C24_Witness ==
    /\ ga_pc = "done"
    /\ LargestComponent = R(40)
    /\ ga_result.gem_type = "Super Connector"
    /\ ga_result.super_connector_score = R(40)
    /\ RLt(ga_result.undervalued_score, R(40))

\* C29: gem_score is at most the largest of the four component scores; whenever
\* gem_type is "none" the gem_score is below 40 and gem_reason is "Not a significant
\* hidden gem"; a gem_score of 40 or more has a gem_type other than "none".
C29_GemScoreBelowLargest ==
    ga_pc = "done" =>
        /\ RLe(ga_result.gem_score, LargestComponent)
        /\ ga_result.gem_type = "none" =>
               /\ RLt(ga_result.gem_score, R(40))
               /\ ga_result.gem_reason = <<[reason |-> "Not a significant hidden gem"]>>
        /\ RGe(ga_result.gem_score, R(40)) => ga_result.gem_type # "none"

\* a profile that is no gem although two of its components are positive
C29_Witness ==
    /\ ga_pc = "done"
    /\ ga_result.gem_type = "none"
    /\ RGt(ga_result.gem_score, R(20))
    /\ RGt(ga_result.undervalued_score, R(0))
    /\ RGt(ga_result.super_connector_score, R(0))

\* C25: in every successful compatibility response the recommendation is the fixed
\* string keyed by the compatibility_score carried in that response: 'Highly
\* Recommended' iff score >= 80, 'Recommended' iff 60 <= score < 80, 'Consider' iff
\* 40 <= score < 60, 'Not Recommended' iff score < 40.
C25_RecommendationKeyedByScore ==
    Answered({"compatibility"}) =>
        LET score == resp.compatibility_score
            recommendation == resp.recommendation
        IN  /\ recommendation = "Highly Recommended - Excellent mutual benefit potential"
                   <=> RGe(score, R(80))
            /\ recommendation = "Recommended - Good compatibility"
                   <=> (RGe(score, R(60)) /\ RLt(score, R(80)))
            /\ recommendation = "Consider - Moderate compatibility"
                   <=> (RGe(score, R(40)) /\ RLt(score, R(60)))
            /\ recommendation = "Not Recommended - Limited mutual benefit"
                   <=> RLt(score, R(40))

\* C26: no ratio of the feature engine raises a division error: skill_match_score is
\* 0 when either skill set is empty, skill_complementarity_score is 0 when both
\* profiles have no needs, and safe_divide returns its default for every zero
\* denominator.
C26_DivisionGuard ==
    /\ feat_pc \in {"done", "swapped"} =>
           /\ features.skill_match_score[2] # 0
           /\ features.skill_complementarity_score[2] # 0
           /\ (Get(profile_a, "skills", {}) = {} \/ Get(profile_b, "skills", {}) = {})
                  => features.skill_match_score = R(0)
           /\ (Get(profile_a, "needs", {}) = {} /\ Get(profile_b, "needs", {}) = {})
                  => features.skill_complementarity_score = R(0)
    /\ \A numerator \in {0, 100, 200}, default \in {R(0), R(50)} :
           safe_divide(numerator, 0, default) = default

\* neither profile has needs, so the complementarity ratio has denominator 0, while
\* the profiles offer something and one of them lists skills
C26_Witness ==
    /\ feat_pc = "done"
    /\ profile_a.needs = {} /\ profile_b.needs = {}
    /\ profile_a.skills = {} /\ profile_b.skills # {}
    /\ profile_b.can_offer # {}
    /\ features.skill_match_score = R(0)
    /\ features.skill_complementarity_score = R(0)

\* C27: recommend_for_user returns each candidate_id at most once and never returns
\* the user as a candidate, for every pairs_df, including one that holds both a
\* (user, candidate) row and a (candidate, user) row for the same two profiles.
C27_CandidatesDistinct ==
    rec_call.called =>
        /\ \A j, k \in DOMAIN recommendations :
               j # k => recommendations[j].candidate_id # recommendations[k].candidate_id
        /\ \A k \in DOMAIN recommendations :
               recommendations[k].candidate_id # rec_call.user_id

\* C28: compatibility_score is independent of pair direction: calculate_features(A, B)
\* and calculate_features(B, A) give the same compatibility_score, each weighted term,
\* geographic_score included, being unchanged by the swap.
C28_DirectionIndependent ==
    feat_pc = "swapped" =>
        /\ features.geographic_score = features_again.geographic_score
        /\ features.compatibility_score = features_again.compatibility_score

(***************************************************************************)
(* Specification of the CompatibilityScorer lifecycle: one scorer object   *)
(* on which prepare_features, train, predict, predict_single and save are  *)
(* called in any order, and which load() may replace by a scorer read from *)
(* disk.  None is written <<>> for feature_names and "None" for pipeline.  *)
(***************************************************************************)
\* features.columns.tolist() at the end of prepare_features
FeatureNames ==
    <<"skill_match_score", "skill_complementarity_score", "network_value_a_to_b",
      "network_value_b_to_a", "career_alignment_score", "experience_gap", "industry_match",
      "geographic_score", "seniority_match", "network_value_avg", "network_value_diff",
      "skill_total", "skill_balance", "exp_gap_squared", "is_mentorship_gap", "is_peer",
      "skill_x_network", "career_x_industry">>

\* CompatibilityScorer.__init__
NewScorer ==
    [model_type |-> "gradient_boosting", pipeline |-> "None", feature_names |-> <<>>,
     is_trained |-> FALSE]

NoFile == [exists |-> FALSE]

\* how far a train() call gets: the split raises, fit raises, cross-validation
\* raises after the fit, or the call returns its metrics
TrainOutcomes == {"split_raised", "fit_raised", "validation_raised", "completed"}

Call(op, outcome, value, completed) ==
    [op |-> op, outcome |-> outcome, value |-> value, completed |-> completed]

InitScorer ==
    /\ scorer = NewScorer
    /\ sc_call = Call("init", "returned", R(0), {})
    /\ sc_file \in {NoFile,
                    [exists |-> TRUE, pipeline |-> "fitted", feature_names |-> FeatureNames,
                     model_type |-> "gradient_boosting"]}
    /\ FeatIdle /\ RecIdle /\ ApiIdle /\ GemIdle /\ RarIdle /\ RfIdle /\ MentIdle /\ GaIdle

\* CompatibilityScorer.prepare_features
ScorerPrepareFeatures ==
    /\ scorer' = [scorer EXCEPT !.feature_names = FeatureNames]
    /\ sc_call' = Call("prepare_features", "returned", R(0), sc_call.completed)
    /\ UNCHANGED <<sc_file, featVars, recVars, apiVars, gemVars, rarVars, rfVars, mentVars, gaVars>>

\* CompatibilityScorer.train
ScorerTrain ==
    \E outcome \in TrainOutcomes :
        /\ scorer' = IF outcome = "split_raised" THEN scorer
                     ELSE IF outcome = "fit_raised"
                     THEN [scorer EXCEPT !.pipeline = "unfitted"]
                     ELSE IF outcome = "validation_raised"
                     THEN [scorer EXCEPT !.pipeline = "fitted"]
                     ELSE [scorer EXCEPT !.pipeline = "fitted", !.is_trained = TRUE]
        /\ sc_call' = Call("train", outcome, R(0),
                           IF outcome = "completed" THEN sc_call.completed \cup {"train"}
                           ELSE sc_call.completed)
        /\ UNCHANGED <<sc_file, featVars, recVars, apiVars, gemVars, rarVars, rfVars,
                       mentVars, gaVars>>

\* self.predict(X) on a scorer: the is_trained guard, then pipeline.predict and np.clip
PredictOn(object, outcome) ==
    LET predicted == scorer_predict(object.is_trained,
                                    IF object.pipeline = "fitted" THEN outcome ELSE Raised)
    IN  IF predicted.kind = "ValueError" THEN [outcome |-> "ValueError", value |-> R(0)]
        ELSE IF predicted.kind = "raise" THEN [outcome |-> "exception", value |-> R(0)]
        ELSE [outcome |-> "returned", value |-> predicted.value]

\* CompatibilityScorer.predict
ScorerPredict ==
    \E outcome \in PredictorOutcomes :
        LET result == PredictOn(scorer, outcome)
        IN  /\ sc_call' = Call("predict", result.outcome, result.value, sc_call.completed)
            /\ UNCHANGED <<scorer, sc_file, featVars, recVars, apiVars, gemVars, rarVars,
                           rfVars, mentVars, gaVars>>

\* CompatibilityScorer.predict_single: prepare_features, then predict
ScorerPredictSingle ==
    \E outcome \in PredictorOutcomes :
        LET prepared == [scorer EXCEPT !.feature_names = FeatureNames]
            result == PredictOn(prepared, outcome)
        IN  /\ scorer' = prepared
            /\ sc_call' = Call("predict_single", result.outcome, result.value,
                               sc_call.completed)
            /\ UNCHANGED <<sc_file, featVars, recVars, apiVars, gemVars, rarVars, rfVars,
                           mentVars, gaVars>>

\* CompatibilityScorer.save
ScorerSave ==
    /\ IF ~scorer.is_trained
       THEN /\ sc_call' = Call("save", "ValueError", R(0), sc_call.completed)
            /\ UNCHANGED sc_file
       ELSE /\ sc_call' = Call("save", "returned", R(0), sc_call.completed)
            /\ sc_file' = [exists |-> TRUE, pipeline |-> scorer.pipeline,
                           feature_names |-> scorer.feature_names,
                           model_type |-> scorer.model_type]
    /\ UNCHANGED <<scorer, featVars, recVars, apiVars, gemVars, rarVars, rfVars, mentVars, gaVars>>

\* CompatibilityScorer.load: the scorer followed from now on is the one load returns
ScorerLoad ==
    /\ IF ~sc_file.exists
       THEN /\ sc_call' = Call("load", "exception", R(0), sc_call.completed)
            /\ UNCHANGED scorer
       ELSE /\ scorer' = [model_type |-> sc_file.model_type, pipeline |-> sc_file.pipeline,
                          feature_names |-> sc_file.feature_names, is_trained |-> TRUE]
            /\ sc_call' = Call("load", "returned", R(0), {"load"})
    /\ UNCHANGED <<sc_file, featVars, recVars, apiVars, gemVars, rarVars, rfVars, mentVars, gaVars>>

NextScorer ==
    \/ ScorerPrepareFeatures
    \/ ScorerTrain
    \/ ScorerPredict
    \/ ScorerPredictSingle
    \/ ScorerSave
    \/ ScorerLoad

SpecScorer == InitScorer /\ [][NextScorer]_vars

\* ---- vocabulary of the lifecycle claim ----
GuardedOps == {"predict", "predict_single", "save"}

\* a train() has completed on the scorer, or load() produced it
TrainedOrLoaded == sc_call.completed # {}

\* C30: in any sequence of CompatibilityScorer operations, predict, predict_single and
\* save fail with ValueError, leaving the scorer unchanged, unless a train() has
\* completed on that scorer or load() produced it; once is_trained is true it never
\* becomes false again; every value predict returns is within [0,100].
C30_ScorerLifecycle ==
    [][ /\ (sc_call'.op \in GuardedOps /\ ~TrainedOrLoaded)
            => (sc_call'.outcome = "ValueError" /\ scorer' = scorer)
        /\ scorer.is_trained => scorer'.is_trained
        /\ (sc_call'.op = "predict" /\ sc_call'.outcome = "returned")
            => InRange(sc_call'.value) ]_vars

====
